---- MODULE Spec2Model ----
(***************************************************************************)
(* Railbookers rail-vacation planner: the recommendation/search engine     *)
(* (filter sanitiser, query builder, progressive fallback, facet cache),   *)
(* and the Package Finder controller that calls it (search rows,           *)
(* autosuggest re-ranking, doSearch).                                      *)
(*                                                                         *)
(* Text is modelled as a sequence of one-character strings so that         *)
(* LOWER(), LIKE, startsWith, length and collation are computed and not    *)
(* assumed.                                                                *)
(***************************************************************************)
EXTENDS Integers, Sequences, FiniteSets, TLC

VARIABLES
    \* ---- recommendation engine: one search(filters) call
    request,      \* the sanitised filter dict the caller passed
    relaxed,      \* the working copy the fallback loop pops keys from
    pc,           \* "Initial" | "Relaxing" | "Found" | "Exhausted" | "Failed"
    step,         \* number of relaxation steps taken so far
    results,      \* ids of the rows the call returns, in store order
    attempts,     \* history: one record per query executed against the store
    \* ---- facet cache (get_filter_options / get_all_locations)
    cacheKey,     \* which of the two caches the behaviour is about
    cacheVal,     \* _filter_cache: 0 = empty dict, else the store version scanned
    cacheTs,      \* _filter_cache_ts
    now,          \* time.time()
    storeVer,     \* version of the catalog's distinct values (changed by writes)
    callers,      \* per caller: position in get_filter_options and its locals
    served,       \* history: the last two requests and what the cache check gave them
    ticks,        \* number of clock advances so far
    \* ---- filter sanitiser
    sanIn,        \* the raw filter structure
    sanOut,       \* the sanitised filter
    sanPc,        \* "raw" | "done"
    \* ---- Package Finder controller
    searchRows,   \* state.searchRows
    nextRowId,    \* state.nextRowId
    searching,    \* state.searching
    view,         \* what #results-list shows
    fetch,        \* the apiFetch call in flight, if any
    lastOutcome,  \* history: how the last finished search really ended
    autoTimer,    \* the debounce timer of autoSearch is armed
    recording,    \* history is kept: the two variables below are filled in
    filtersSent,  \* history: buildFilters() of the search in flight
    filtersShown, \* history: buildFilters() of the search whose outcome is shown
    inFlight,     \* history: search requests issued and not yet ended
    \* ---- autosuggest
    sugIn,        \* [query, limit, rows, items] of one fetchSuggestions call
    sugOut,       \* the list fetchSuggestions returned
    sugPc,        \* "request" | "response" | "ranked" | "failed" | "skipped"
    \* ---- what the user types into a search row, in order
    typed,        \* number of entries of TypedScript typed so far
    \* ---- scorer: one _score(row, filters) call
    scoreIn,      \* [row, filters] of the call
    scoreOut,     \* the score returned
    scorePc,      \* "call" | "done"
    \* ---- sorter: one _apply_sort(scored, sort_by) call
    sortIn,       \* [rows, mode] of the call
    sortOut,      \* the list returned
    sortPc,       \* "call" | "done"
    \* ---- the chat app (RailbookersApp)
    messages,     \* this.messages
    sessionId,    \* this.sessionId
    currentStep,  \* this.currentStep
    sending,      \* this._sending
    chatFetch,    \* the api._fetch call behind api.sendMessage
    chatInFlight, \* api.sendMessage calls made and not returned
    handled,      \* handleUserMessage calls made
    chatResponse, \* what the last api.sendMessage call returned
    \* ---- a search row's destination input and its suggestion dropdown
    inputValue,   \* inputEl.value
    focused,      \* document.activeElement === inputEl
    sugTimer,     \* the debounce timer of debouncedFetch is pending
    hideTimer,    \* the blur handler's hide timer is pending
    pending,      \* fetchSuggestions calls not yet returned
    nextSeq,      \* number of the next fetchSuggestions call
    dropdown,     \* the dropdown, with the request its list came from
    answered,     \* number of the newest fetchSuggestions call that returned
    \* ---- a DatePicker widget, the suggestion buttons and the chat input
    calNow,       \* now: the day the widget was attached
    curMonth,     \* month on show
    curYear,      \* year on show
    startDate,    \* start of the range, or no date
    endDate,      \* end of the range, or no date
    confirmDisabled, \* #cal-confirm is disabled
    navDisabled,  \* the month buttons are disabled
    calDone,      \* the widget has class cal-done
    actionUsed,   \* the suggestion buttons are disabled
    chatInput,    \* value of the chat textarea
    onConfirmCalls,\* calls of onConfirm made
    \* ---- the chat page: the last assistant bubble and localStorage
    bubble,       \* what the last assistant bubble shows
    storage,      \* localStorage rb_session_id and rb_step
    saved,        \* the pair _saveSession last wrote
    restores,     \* fresh apps constructed
    \* ---- one filter panel of the Package Finder (Region, Trains or Vacation Type)
    panelName,    \* the panel followed
    allItems,     \* the option list of the panel (state.allRegionItems, allTrainNames, allVacationTypes)
    selectedItems, \* the selection of the panel (state.selectedRegions, selectedTrains, selectedVacTypes)
    chipItems,    \* the values of the chips rendered in the panel
    chipsBound,   \* the rendered chips toggle the current selection array
    activePanel,  \* the panel is open (state.activePanel)
    \* ---- one MultiSelect widget of the chat (chips, counter, search box)
    msVariant,    \* the component attached, with or without the search box
    msMax,        \* max of attachHandlers
    msSelected,   \* the Set of selected values, in insertion order
    msCounter,    \* the text of the counter element
    msCalled,     \* the callback has been called
    msText,       \* the text last passed to the callback
    msSearch,     \* the value of the search box
    msClick,      \* flips at every chip click
    msChip        \* the value of the chip clicked last

engineVars == <<request, relaxed, pc, step, results, attempts>>
cacheVars == <<cacheKey, cacheVal, cacheTs, now, storeVer, callers, served, ticks>>
sanVars == <<sanIn, sanOut, sanPc>>
finderVars == <<searchRows, nextRowId, searching, view, fetch, lastOutcome, autoTimer,
               recording, filtersSent, filtersShown, inFlight>>
sugVars == <<sugIn, sugOut, sugPc>>
typingVars == <<typed>>
scoreVars == <<scoreIn, scoreOut, scorePc>>
sortVars == <<sortIn, sortOut, sortPc>>
chatVars == <<messages, sessionId, currentStep, sending, chatFetch, chatInFlight, handled, chatResponse>>
dropVars == <<inputValue, focused, sugTimer, hideTimer, pending, nextSeq, dropdown, answered>>
pickerVars == <<calNow, curMonth, curYear, startDate, endDate, confirmDisabled, navDisabled, calDone, actionUsed, chatInput, onConfirmCalls>>
pageVars == <<bubble, storage, saved, restores>>
panelVars == <<panelName, allItems, selectedItems, chipItems, chipsBound, activePanel>>
msVars == <<msVariant, msMax, msSelected, msCounter, msCalled, msText, msSearch, msClick, msChip>>
vars == <<engineVars, cacheVars, sanVars, finderVars, sugVars, typingVars, scoreVars, sortVars, chatVars, dropVars, pickerVars, pageVars, panelVars, msVars>>

\* each part of the system leaves the state of the other parts alone
EngineOnly == UNCHANGED <<cacheVars, sanVars, finderVars, sugVars, typingVars, scoreVars, sortVars, chatVars, dropVars, pickerVars, pageVars, panelVars, msVars>>
CacheOnly == UNCHANGED <<engineVars, sanVars, finderVars, sugVars, typingVars, scoreVars, sortVars, chatVars, dropVars, pickerVars, pageVars, panelVars, msVars>>
SanOnly == UNCHANGED <<engineVars, cacheVars, finderVars, sugVars, typingVars, scoreVars, sortVars, chatVars, dropVars, pickerVars, pageVars, panelVars, msVars>>
FinderOnly == UNCHANGED <<engineVars, cacheVars, sanVars, sugVars, typingVars, scoreVars, sortVars, chatVars, dropVars, pickerVars, pageVars, panelVars, msVars>>
SugOnly == UNCHANGED <<engineVars, cacheVars, sanVars, finderVars, typingVars, scoreVars, sortVars, chatVars, dropVars, pickerVars, pageVars, panelVars, msVars>>
TypingOnly == UNCHANGED <<engineVars, cacheVars, sanVars, finderVars, sugVars, scoreVars, sortVars, chatVars, dropVars, pickerVars, pageVars, panelVars, msVars>>
ScoreOnly == UNCHANGED <<engineVars, cacheVars, sanVars, finderVars, sugVars, typingVars, sortVars, chatVars, dropVars, pickerVars, pageVars, panelVars, msVars>>
SortOnly == UNCHANGED <<engineVars, cacheVars, sanVars, finderVars, sugVars, typingVars, scoreVars, chatVars, dropVars, pickerVars, pageVars, panelVars, msVars>>
ChatOnly == UNCHANGED <<engineVars, cacheVars, sanVars, finderVars, sugVars, typingVars, scoreVars, sortVars, dropVars, pickerVars, panelVars, msVars>>
TypedRowOnly == UNCHANGED <<engineVars, cacheVars, sanVars, sugVars, scoreVars, sortVars, chatVars, dropVars, pickerVars, pageVars, panelVars, msVars>>
DropOnly == UNCHANGED <<engineVars, cacheVars, sanVars, sugVars, typingVars, scoreVars, sortVars, chatVars, pickerVars, pageVars, panelVars, msVars>>
PickerOnly == UNCHANGED <<engineVars, cacheVars, sanVars, finderVars, sugVars, typingVars, scoreVars, sortVars, chatVars, dropVars, pageVars, panelVars, msVars>>

-----------------------------------------------------------------------------
(* Text *)

UpperToLower ==
    [A |-> "a", B |-> "b", C |-> "c", D |-> "d", E |-> "e", F |-> "f", G |-> "g",
     H |-> "h", I |-> "i", J |-> "j", K |-> "k", L |-> "l", M |-> "m", N |-> "n",
     O |-> "o", P |-> "p", Q |-> "q", R |-> "r", S |-> "s", T |-> "t", U |-> "u",
     V |-> "v", W |-> "w", X |-> "x", Y |-> "y", Z |-> "z"]

LowerChar(c) ==
    IF c \in DOMAIN UpperToLower THEN UpperToLower[c] ELSE c

\* SQL LOWER(), JS toLowerCase()
Lower(s) ==
    [i \in 1..Len(s) |-> LowerChar(s[i])]

\* JS startsWith
StartsWith(s, p) ==
    /\ Len(p) <= Len(s)
    /\ SubSeq(s, 1, Len(p)) = p

\* SQL  hay LIKE '%' || needle || '%'
Like(hay, needle) ==
    \E i \in 0..(Len(hay) - Len(needle)) :
        SubSeq(hay, i + 1, i + Len(needle)) = needle

Digits ==
    {"0", "1", "2", "3", "4", "5", "6", "7", "8", "9"}

DigitVal ==
    [d \in Digits |-> CHOOSE n \in 0..9 : <<"0", "1", "2", "3", "4", "5", "6", "7", "8", "9">>[n + 1] = d]

\* duration ~ '^[0-9]+$'
IsNumeric(s) ==
    /\ Len(s) > 0
    /\ \A i \in 1..Len(s) : s[i] \in Digits

RECURSIVE CastInt(_)
\* CAST(duration AS INTEGER), defined on numeric strings
CastInt(s) ==
    IF Len(s) = 0 THEN 0
    ELSE 10 * CastInt(SubSeq(s, 1, Len(s) - 1)) + DigitVal[s[Len(s)]]

sLondon ==
    <<"L", "o", "n", "d", "o", "n">>
sRome ==
    <<"R", "o", "m", "e">>
sParis ==
    <<"P", "a", "r", "i", "s">>
sTokyo ==
    <<"T", "o", "k", "y", "o">>
sLondonLc ==
    <<"l", "o", "n", "d", "o", "n">>
sRomeLc ==
    <<"r", "o", "m", "e">>
sItaly ==
    <<"I", "t", "a", "l", "y">>
sEurope ==
    <<"E", "u", "r", "o", "p", "e">>
sRomance ==
    <<"R", "o", "m", "a", "n", "c", "e">>
sBernina ==
    <<"B", "e", "r", "n", "i", "n", "a">>
sTEST ==
    <<"T", "E", "S", "T">>
nLondonRome ==
    <<"L", "o", "n", "d", "o", "n", " ", "t", "o", " ", "R", "o", "m", "e">>
nLondonParis ==
    <<"L", "o", "n", "d", "o", "n", " ", "t", "o", " ", "P", "a", "r", "i", "s">>
nTestPkg ==
    <<"T", "e", "s", "t", " ", "L", "o", "n", "d", "o", "n", " ", "R", "o", "m", "e">>
nRomeEscape ==
    <<"R", "o", "m", "e", " ", "E", "s", "c", "a", "p", "e">>
nParisTexas ==
    <<"P", "a", "r", "i", "s", " ", "T", "e", "x", "a", "s">>
cLonParRom ==
    <<"L", "o", "n", "d", "o", "n", " ", "|", " ", "P", "a", "r", "i", "s", " ", "|", " ", "R", "o", "m", "e">>
cLonPar ==
    <<"L", "o", "n", "d", "o", "n", " ", "|", " ", "P", "a", "r", "i", "s">>
cFraIta ==
    <<"F", "r", "a", "n", "c", "e", " ", "|", " ", "I", "t", "a", "l", "y">>
sFrance ==
    <<"F", "r", "a", "n", "c", "e">>
sUSA ==
    <<"U", "S", "A">>
sNorthAmerica ==
    <<"N", "o", "r", "t", "h", " ", "A", "m", "e", "r", "i", "c", "a">>
sScenic ==
    <<"S", "c", "e", "n", "i", "c">>
sEurostar ==
    <<"E", "u", "r", "o", "s", "t", "a", "r">>
sAmtrak ==
    <<"A", "m", "t", "r", "a", "k">>
d10 ==
    <<"1", "0">>
d5 ==
    <<"5">>
dNA ==
    <<"n", "/", "a">>

-----------------------------------------------------------------------------
(* Catalog Store: the rag_packages table *)

Row(id, name, start, end, cities, countries, regions, triptype, route, duration, grp, dep, rank) ==
    [id |-> id, external_name |-> name, start_location |-> start, end_location |-> end,
     included_cities |-> cities, included_countries |-> countries,
     included_regions |-> regions, triptype |-> triptype, route |-> route,
     duration |-> duration, profitability_group |-> grp, departure_type |-> dep,
     package_rank |-> rank]

Catalog ==
    << Row(1, nLondonRome, sLondon, sRome, cLonParRom, cFraIta, sEurope, sScenic, sEurostar,
           d10, "Packages - Low", "Anyday", 50),
       Row(2, nLondonParis, sLondon, sParis, cLonPar, sFrance, sEurope, sRomance, sEurostar,
           d10, "Packages - High", "Fixed", 150),
       Row(3, nTestPkg, sLondon, sRome, cLonParRom, cFraIta, sEurope, sRomance, sBernina,
           d10, "Packages - High", "Fixed", 20),
       Row(4, nRomeEscape, sRome, sRome, sRome, sItaly, sEurope, sRomance, sBernina,
           dNA, "Packages - High", "Fixed", 400),
       Row(5, nParisTexas, sParis, sParis, sParis, sUSA, sNorthAmerica, sScenic, sAmtrak,
           d5, "Packages - Standard Margin", "Anyday", 250) >>

-----------------------------------------------------------------------------
(* Filter dicts: functions from the keys present to their values *)

Has(f, k) ==
    k \in DOMAIN f

\* dict.pop(key) for every key of ks, absent keys ignored
Drop(f, ks) ==
    [k \in DOMAIN f \ ks |-> f[k]]

Merge(f, g) ==
    [k \in DOMAIN f \cup DOMAIN g |-> IF k \in DOMAIN g THEN g[k] ELSE f[k]]

PRIMARY_KEYS ==
    {"search_rows", "includes", "starts_in", "ends_in", "region", "package_name"}

SECONDARY_KEYS ==
    {"departure_type", "hotel_tier", "vacation_type", "vacation_types", "trains",
     "train_names", "countries", "duration_min", "duration_max"}

\* label -> profitability_group values
TIER_MAP ==
    [Luxury |-> {"Packages - High"},
     Premium |-> {"Packages - Standard Margin", "Hurtigruten Packages", "Package - 29/30/31%"},
     Value |-> {"Packages - Low"}]

RESULT_LIMIT ==
    2000

-----------------------------------------------------------------------------
(* Query Builder: clauses are records of one shape *)

Clause(kind, col, param, n, grp, alts) ==
    [kind |-> kind, col |-> col, param |-> param, n |-> n, grp |-> grp, alts |-> alts]

LowerEq(col, p) ==
    Clause("lower_eq", col, p, 0, {}, <<>>)

LowerLike(col, p) ==
    Clause("lower_like", col, p, 0, {}, <<>>)

AnyOf(alts) ==
    Clause("or", "", <<>>, 0, {}, alts)

\* external_name NOT ILIKE '%TEST%'
TestExclusion ==
    Clause("not_ilike", "external_name", sTEST, 0, {}, <<>>)

\* faulty variant: starts_in compared with the end location and ends_in with the start
DestClauseSwapped(mode, dest) ==
    CASE mode = "starts_in" -> LowerEq("end_location", dest)
      [] mode = "ends_in" -> LowerEq("start_location", dest)
      [] OTHER -> AnyOf(<< LowerLike("included_cities", dest),
                           LowerEq("start_location", dest),
                           LowerEq("end_location", dest),
                           LowerLike("included_countries", dest) >>)

\* one destination of a search row, by the row's mode
DestClause(mode, dest) ==
    CASE mode = "starts_in" -> LowerEq("start_location", dest)
      [] mode = "ends_in" -> LowerEq("end_location", dest)
      [] OTHER -> AnyOf(<< LowerLike("included_cities", dest),
                           LowerEq("start_location", dest),
                           LowerEq("end_location", dest),
                           LowerLike("included_countries", dest) >>)

\* OR within a row
RowClause(sr) ==
    AnyOf([i \in 1..Len(sr.destinations) |-> DestClause(sr.mode, sr.destinations[i])])

\* AND across rows: one clause per row
SearchRowClauses(f) ==
    IF Has(f, "search_rows")
    THEN [i \in 1..Len(f["search_rows"]) |-> RowClause(f["search_rows"][i])]
    ELSE <<>>

LikeAny(col, vals) ==
    AnyOf([i \in 1..Len(vals) |-> LowerLike(col, vals[i])])

PrimaryClauses(f) ==
    SearchRowClauses(f)
    \o (IF Has(f, "region") THEN << LowerLike("included_regions", f["region"]) >> ELSE <<>>)
    \o (IF Has(f, "package_name") THEN << LowerLike("external_name", f["package_name"]) >> ELSE <<>>)

SecondaryClauses(f) ==
    (IF Has(f, "duration_min")
        THEN << Clause("dur_ge", "duration", <<>>, f["duration_min"], {}, <<>>) >> ELSE <<>>)
    \o (IF Has(f, "duration_max")
        THEN << Clause("dur_le", "duration", <<>>, f["duration_max"], {}, <<>>) >> ELSE <<>>)
    \o (IF Has(f, "hotel_tier")
        THEN << Clause("in", "profitability_group", <<>>, 0, TIER_MAP[f["hotel_tier"]], <<>>) >>
        ELSE <<>>)
    \o (IF Has(f, "vacation_types") THEN << LikeAny("triptype", f["vacation_types"]) >> ELSE <<>>)
    \o (IF Has(f, "train_names") THEN << LikeAny("route", f["train_names"]) >> ELSE <<>>)
    \o (IF Has(f, "countries") THEN << LikeAny("included_countries", f["countries"]) >> ELSE <<>>)
    \o (IF Has(f, "departure_type")
        THEN << Clause("in", "departure_type", <<>>, 0, {f["departure_type"]}, <<>>) >>
        ELSE <<>>)

\* _build_where(): the conjunction of the filter's clauses
BuildWhere(f) ==
    PrimaryClauses(f) \o SecondaryClauses(f)

\* faulty variant: the test-name exclusion is left out of the statement
BuildSqlNoExclusion(f) ==
    [where |-> BuildWhere(f), limit |-> RESULT_LIMIT]

\* _build_sql(): WHERE external_name NOT ILIKE '%TEST%' AND <where> LIMIT 2000
BuildSql(f) ==
    [where |-> << TestExclusion >> \o BuildWhere(f), limit |-> RESULT_LIMIT]

-----------------------------------------------------------------------------
(* Catalog Store: execute(predicate, params, limit) -> rows *)

RECURSIVE Eval(_, _)
Eval(c, row) ==
    CASE c.kind = "lower_eq" -> Lower(row[c.col]) = Lower(c.param)
      [] c.kind = "lower_like" -> Like(Lower(row[c.col]), Lower(c.param))
      [] c.kind = "not_ilike" -> ~Like(Lower(row[c.col]), Lower(c.param))
      [] c.kind = "dur_ge" -> IsNumeric(row.duration) /\ CastInt(row.duration) >= c.n
      [] c.kind = "dur_le" -> IsNumeric(row.duration) /\ CastInt(row.duration) <= c.n
      [] c.kind = "in" -> row[c.col] \in c.grp
      [] c.kind = "or" -> \E i \in 1..Len(c.alts) : Eval(c.alts[i], row)

Satisfies(row, where) ==
    \A i \in 1..Len(where) : Eval(where[i], row)

Take(s, n) ==
    IF Len(s) <= n THEN s ELSE SubSeq(s, 1, n)

IdsOf(rows) ==
    [i \in 1..Len(rows) |-> rows[i].id]

\* the ids of the rows the store returns, in store order
Execute(sql) ==
    Take(IdsOf(SelectSeq(Catalog, LAMBDA row : Satisfies(row, sql.where))), sql.limit)

RowOf(id) ==
    Catalog[CHOOSE i \in 1..Len(Catalog) : Catalog[i].id = id]

-----------------------------------------------------------------------------
(* Fallback Controller: search(filters) and _fallback_search() *)

\* faulty variant: hotel_tier is relaxed before departure_type
RelaxOrderSwapped ==
    << {"hotel_tier"},
       {"departure_type"},
       {"vacation_type", "vacation_types"},
       {"trains", "train_names"},
       {"countries"},
       {"duration_min", "duration_max"} >>

\* the relaxation order; entries 3, 4 and 6 name both spellings / both bounds
RelaxOrder ==
    << {"departure_type"},
       {"hotel_tier"},
       {"vacation_type", "vacation_types"},
       {"trains", "train_names"},
       {"countries"},
       {"duration_min", "duration_max"} >>

\* faulty variant: the last relaxation step also gives up the search rows
RelaxKeyDropsSearchRows(f, k) ==
    Drop(f, RelaxOrder[k] \cup (IF k = Len(RelaxOrder) THEN {"search_rows"} ELSE {}))

\* for key in [...]: relaxed.pop(key)
RelaxKey(f, k) ==
    Drop(f, RelaxOrder[k])

\* faulty variant: an exhausted search falls back to the whole catalog
ExhaustedResultWholeCatalog ==
    Execute(BuildSql(<<>>))

\* "If all secondaries dropped + still 0 -> return empty (not random!)"
ExhaustedResult ==
    <<>>

Attempt(f, rows) ==
    [filter |-> f, sql |-> BuildSql(f), rows |-> rows]

\* The requests a caller can pass after sanitisation.
SearchRowChoices ==
    { << [mode |-> "starts_in", destinations |-> << sLondon >>],
         [mode |-> "ends_in", destinations |-> << sRome >>] >>,
      << [mode |-> "starts_in", destinations |-> << sLondonLc >>] >>,
      << [mode |-> "ends_in", destinations |-> << sParis, sRomeLc >>] >>,
      << [mode |-> "includes", destinations |-> << sParis >>] >>,
      << [mode |-> "includes", destinations |-> << sItaly >>],
         [mode |-> "starts_in", destinations |-> << sRome, sLondon >>] >>,
      << [mode |-> "includes", destinations |-> << sTokyo >>] >> }

Opt(key, vals) ==
    { <<>> } \cup { [k \in {key} |-> v] : v \in vals }

DurationChoices ==
    { <<>>, [duration_min |-> 7, duration_max |-> 14], [duration_min |-> 20, duration_max |-> 30] }

Requests ==
    { Merge(Merge(Merge(Merge(Merge(Merge(Merge(Merge(sr, rg), pn), dt), ht), vt), tn), co), du) :
        sr \in Opt("search_rows", SearchRowChoices),
        rg \in Opt("region", { sEurope }),
        pn \in Opt("package_name", { sRomeLc }),
        dt \in Opt("departure_type", { "Fixed" }),
        ht \in Opt("hotel_tier", { "Luxury" }),
        vt \in Opt("vacation_types", { << sRomance >> }),
        tn \in Opt("train_names", { << sBernina >> }),
        co \in Opt("countries", { << sItaly >> }),
        du \in DurationChoices }

EngineInit ==
    /\ request \in Requests
    /\ relaxed = request
    /\ pc = "Initial"
    /\ step = 0
    /\ results = <<>>
    /\ attempts = <<>>

EngineIdle ==
    /\ request = <<>>
    /\ relaxed = <<>>
    /\ pc = "Idle"
    /\ step = 0
    /\ results = <<>>
    /\ attempts = <<>>

\* the store raises (connection loss, statement timeout): the exception
\* propagates out of search()
StoreFails ==
    /\ pc \in {"Initial", "Relaxing"}
    /\ pc' = "Failed"
    /\ results' = <<>>
    /\ UNCHANGED <<request, relaxed, step, attempts>>
    /\ EngineOnly

\* Initial: run the full, unrelaxed filter
InitialQuery ==
    /\ pc = "Initial"
    /\ LET rows == Execute(BuildSql(relaxed)) IN
        /\ attempts' = Append(attempts, Attempt(relaxed, rows))
        /\ IF rows # <<>>
           THEN pc' = "Found" /\ results' = rows
           ELSE pc' = "Relaxing" /\ results' = <<>>
    /\ UNCHANGED <<request, relaxed, step>>
    /\ EngineOnly

\* faulty variant: each step pops its key from the original request, which
\* puts the keys dropped before back
RelaxStepRestoring ==
    /\ pc = "Relaxing"
    /\ step < Len(RelaxOrder)
    /\ LET f == RelaxKey(request, step + 1)
           rows == Execute(BuildSql(f)) IN
        /\ relaxed' = f
        /\ step' = step + 1
        /\ attempts' = Append(attempts, Attempt(f, rows))
        /\ IF rows # <<>>
           THEN pc' = "Found" /\ results' = rows
           ELSE IF step + 1 = Len(RelaxOrder)
                THEN pc' = "Exhausted" /\ results' = ExhaustedResult
                ELSE pc' = "Relaxing" /\ results' = <<>>
    /\ UNCHANGED request
    /\ EngineOnly

\* one iteration of the relaxation loop: pop the next key, execute, check
RelaxStep ==
    /\ pc = "Relaxing"
    /\ step < Len(RelaxOrder)
    /\ LET f == RelaxKey(relaxed, step + 1)
           rows == Execute(BuildSql(f)) IN
        /\ relaxed' = f
        /\ step' = step + 1
        /\ attempts' = Append(attempts, Attempt(f, rows))
        /\ IF rows # <<>>
           THEN pc' = "Found" /\ results' = rows
           ELSE IF step + 1 = Len(RelaxOrder)
                THEN pc' = "Exhausted" /\ results' = ExhaustedResult
                ELSE pc' = "Relaxing" /\ results' = <<>>
    /\ UNCHANGED request
    /\ EngineOnly

EngineNext ==
    \/ InitialQuery
    \/ RelaxStep
    \/ StoreFails

-----------------------------------------------------------------------------
(* Properties of search(filters) *)

\* does destination d match the row under the search row's mode
ModeMatch(row, mode, d) ==
    CASE mode = "starts_in" -> Lower(row.start_location) = Lower(d)
      [] mode = "ends_in" -> Lower(row.end_location) = Lower(d)
      [] OTHER -> \/ Like(Lower(row.included_cities), Lower(d))
                  \/ Lower(row.start_location) = Lower(d)
                  \/ Lower(row.end_location) = Lower(d)
                  \/ Like(Lower(row.included_countries), Lower(d))

\* AND across search rows, OR within a row
RowMatches(row, srs) ==
    \A i \in 1..Len(srs) : \E j \in 1..Len(srs[i].destinations) :
        ModeMatch(row, srs[i].mode, srs[i].destinations[j])

RequestRows ==
    IF Has(request, "search_rows") THEN request["search_rows"] ELSE <<>>

MeetsPrimary(row) ==
    /\ RowMatches(row, RequestRows)
    /\ Has(request, "region") => Like(Lower(row.included_regions), Lower(request["region"]))
    /\ Has(request, "package_name") => Like(Lower(row.external_name), Lower(request["package_name"]))

Carries(where, clauses) ==
    \A j \in 1..Len(clauses) : \E m \in 1..Len(where) : where[m] = clauses[j]

\* C1: every query executed by search(filters), the initial one and every
\* relaxed one, carries all primary filters of the original request unchanged
\* (only secondary keys are ever removed), and no returned row fails the
\* request's search rows, region or package-name filter.
C1_PrimaryNeverDropped ==
    /\ \A i \in 1..Len(attempts) :
        /\ \A k \in PRIMARY_KEYS :
            /\ Has(attempts[i].filter, k) <=> Has(request, k)
            /\ Has(request, k) => attempts[i].filter[k] = request[k]
        /\ (DOMAIN request \ DOMAIN attempts[i].filter) \subseteq SECONDARY_KEYS
        /\ Carries(attempts[i].sql.where, PrimaryClauses(request))
    /\ \A i \in 1..Len(results) : MeetsPrimary(RowOf(results[i]))

\* a relaxed query found rows for a request with search rows and a region
C1_Witness ==
    /\ pc = "Found"
    /\ step >= 2
    /\ Has(request, "search_rows")
    /\ Has(request, "region")
    /\ results # <<>>

C2_Precedence ==
    << {"departure_type"}, {"hotel_tier"}, {"vacation_type", "vacation_types"},
       {"trains", "train_names"}, {"countries"}, {"duration_min", "duration_max"} >>

C2_DroppedBefore(i) ==
    UNION { C2_Precedence[j] : j \in 1..(i - 1) }

AllAttemptsEmpty ==
    /\ Len(attempts) = Len(C2_Precedence) + 1
    /\ \A i \in 1..Len(attempts) : attempts[i].rows = <<>>

\* C3: when the unrelaxed query and every relaxed query return zero rows, the
\* search ends Exhausted with an empty result list: a normal outcome, no
\* error, no package at all.
C3_ExhaustedIsEmpty ==
    /\ AllAttemptsEmpty => pc = "Exhausted" /\ results = <<>>
    /\ pc = "Exhausted" => AllAttemptsEmpty /\ results = <<>>

\* all seven queries of a request with search rows came back empty
C3_Witness ==
    /\ pc = "Exhausted"
    /\ Has(request, "search_rows")
    /\ AllAttemptsEmpty

IsTestName(name) ==
    Like(Lower(name), Lower(sTEST))

\* C4: every query generated, for any filter combination and at every
\* relaxation step, contains the test-name exclusion, and no returned row has
\* a test name.
C4_TestRowsExcluded ==
    /\ \A i \in 1..Len(attempts) :
        \E m \in 1..Len(attempts[i].sql.where) :
            /\ attempts[i].sql.where[m].kind = "not_ilike"
            /\ attempts[i].sql.where[m].col = "external_name"
            /\ Lower(attempts[i].sql.where[m].param) = Lower(sTEST)
    /\ \A i \in 1..Len(attempts) : \A j \in 1..Len(attempts[i].rows) :
        ~IsTestName(RowOf(attempts[i].rows[j]).external_name)
    /\ \A i \in 1..Len(results) : ~IsTestName(RowOf(results[i]).external_name)

\* a relaxed query returned rows while a test row met every filter it carried
C4_Witness ==
    /\ pc = "Found"
    /\ step >= 1
    /\ \E i \in 1..Len(Catalog) :
        /\ IsTestName(Catalog[i].external_name)
        /\ Satisfies(Catalog[i], BuildWhere(relaxed))

ExampleRows ==
    << [mode |-> "starts_in", destinations |-> << sLondon >>],
       [mode |-> "ends_in", destinations |-> << sRome >> ] >>

\* C9: a package row passes the search-row clauses of a query iff for every
\* search row at least one of its destinations matches under the row's mode
\* (starts_in / ends_in: case-insensitive equality with the start / end
\* location); rows {starts_in: London} and {ends_in: Rome} return the
\* London-to-Rome package and not the London-to-Paris package.
C9_RowsAndedDestsOred ==
    /\ \A i \in 1..Len(attempts) : \A n \in 1..Len(Catalog) :
        Satisfies(Catalog[n], SearchRowClauses(attempts[i].filter))
            <=> RowMatches(Catalog[n], RequestRows)
    /\ \A i \in 1..Len(attempts) : \A j \in 1..Len(attempts[i].rows) :
        RowMatches(RowOf(attempts[i].rows[j]), RequestRows)
    /\ (pc = "Found" /\ RequestRows = ExampleRows) => results = << 1 >>

\* the example request found the London-to-Rome package
C9_Witness ==
    /\ pc = "Found"
    /\ RequestRows = ExampleRows
    /\ results = << 1 >>
    /\ RowOf(2).start_location = sLondon
    /\ ~RowMatches(RowOf(2), RequestRows)

-----------------------------------------------------------------------------
(* Facet Cache: get_filter_options() and get_all_locations() *)

FILTER_CACHE_TTL ==
    60

LOCATION_CACHE_TTL ==
    900

TTL ==
    [filters |-> FILTER_CACHE_TTL, locations |-> LOCATION_CACHE_TTL]

Callers ==
    {"c1", "c2"}

MaxTicks ==
    3

MaxWrites ==
    2

\* the clock advances by a little, by just under the TTL, or by the TTL
TickSteps ==
    {1, TTL[cacheKey] - 1, TTL[cacheKey]}

Local(p, n, r) ==
    [pc |-> p, now |-> n, result |-> r]

Request(c, hit, val, ts, at) ==
    [caller |-> c, hit |-> hit, val |-> val, ts |-> ts, at |-> at]

\* keep the last two requests
Remember(r) ==
    IF Len(served) < 2 THEN Append(served, r) ELSE << served[2], r >>

\* if _filter_cache and (now - _filter_cache_ts) < FILTER_CACHE_TTL
CacheFresh(val, ts, t, ttl) ==
    /\ val # 0
    /\ (t - ts) < ttl

CacheInit ==
    /\ cacheKey \in DOMAIN TTL
    /\ cacheVal = 0
    /\ cacheTs = 0
    /\ now = 0
    /\ storeVer = 1
    /\ callers = [c \in Callers |-> Local("idle", 0, 0)]
    /\ served = <<>>
    /\ ticks = 0

\* time passes
Tick ==
    /\ ticks < MaxTicks
    /\ \E d \in TickSteps : now' = now + d
    /\ ticks' = ticks + 1
    /\ UNCHANGED <<cacheKey, cacheVal, cacheTs, storeVer, callers, served>>
    /\ CacheOnly

\* a catalog write changes the distinct values; the cache is not told
CatalogWrite ==
    /\ storeVer < MaxWrites + 1
    /\ storeVer' = storeVer + 1
    /\ UNCHANGED <<cacheKey, cacheVal, cacheTs, now, callers, served, ticks>>
    /\ CacheOnly

\* entry of get_filter_options: read the clock, test the cache
\* hit: return _filter_cache
CacheHit(c) ==
    /\ callers[c].pc = "idle"
    /\ CacheFresh(cacheVal, cacheTs, now, TTL[cacheKey])
    /\ served' = Remember(Request(c, TRUE, cacheVal, cacheTs, now))
    /\ UNCHANGED <<cacheKey, cacheVal, cacheTs, now, storeVer, callers, ticks>>
    /\ CacheOnly

\* miss: fall through to the rebuild
CacheMiss(c) ==
    /\ callers[c].pc = "idle"
    /\ ~CacheFresh(cacheVal, cacheTs, now, TTL[cacheKey])
    /\ callers' = [callers EXCEPT ![c] = Local("scan", now, 0)]
    /\ served' = Remember(Request(c, FALSE, 0, cacheTs, now))
    /\ UNCHANGED <<cacheKey, cacheVal, cacheTs, now, storeVer, ticks>>
    /\ CacheOnly

\* "... execute queries, populate cache ...": the distinct-values scan
Scan(c) ==
    /\ callers[c].pc = "scan"
    /\ callers' = [callers EXCEPT ![c] = Local("store", callers[c].now, storeVer)]
    /\ UNCHANGED <<cacheKey, cacheVal, cacheTs, now, storeVer, served, ticks>>
    /\ CacheOnly

\* _filter_cache = result
StoreCache(c) ==
    /\ callers[c].pc = "store"
    /\ cacheVal' = callers[c].result
    /\ callers' = [callers EXCEPT ![c].pc = "stamp"]
    /\ UNCHANGED <<cacheKey, cacheTs, now, storeVer, served, ticks>>
    /\ CacheOnly

\* _filter_cache_ts = now; return result
StampCache(c) ==
    /\ callers[c].pc = "stamp"
    /\ cacheTs' = callers[c].now
    /\ callers' = [callers EXCEPT ![c] = Local("idle", 0, 0)]
    /\ UNCHANGED <<cacheKey, cacheVal, now, storeVer, served, ticks>>
    /\ CacheOnly

CacheNext ==
    \/ Tick
    \/ CatalogWrite
    \/ \E c \in Callers : CacheHit(c)
    \/ \E c \in Callers : CacheMiss(c)
    \/ \E c \in Callers : Scan(c)
    \/ \E c \in Callers : StoreCache(c)
    \/ \E c \in Callers : StampCache(c)

Rebuilding ==
    { c \in Callers : callers[c].pc # "idle" }

\* C7: when several concurrent callers request facet options after the TTL
\* has expired, exactly one rebuild is executed: no second caller starts a
\* rebuild while one is in progress.
C7_SingleRebuild ==
    (cacheVal # 0 /\ (now - cacheTs) >= TTL[cacheKey]) => Cardinality(Rebuilding) <= 1

\* C8: two requests issued within the TTL window of a populated cache return
\* the same value and the second one does no store scan.
C8_SameValueWithinTtl ==
    (/\ Len(served) = 2
     /\ served[1].hit
     /\ served[2].at < served[1].ts + TTL[cacheKey])
        => served[2].hit /\ served[2].val = served[1].val

-----------------------------------------------------------------------------
(* Filter Sanitiser: _sanitize_filters() *)

MAX_STR_LEN ==
    200

MAX_DEST_LEN ==
    100

MAX_DESTS_PER_ROW ==
    10

MAX_SEARCH_ROWS ==
    5

MAX_FACET_ITEMS ==
    20

DURATION_MIN ==
    1

DURATION_MAX ==
    365

VALID_MODES ==
    {"starts_in", "ends_in", "includes"}

VALID_SORTS ==
    {"popularity", "name_asc", "name_desc", "newest", "duration_asc", "duration_desc",
     "price_asc", "price_desc"}

\* untrusted JSON values carry their type: n for a number, s for text, m for
\* a mode word, l for the items of a list; a search-row object is the pair
\* of its "mode" and "destinations" values
Raw(t, n, s, m, l) == [t |-> t, n |-> n, s |-> s, m |-> m, l |-> l]
RNone == Raw("none", 0, <<>>, "", <<>>)
RInt(n) == Raw("int", n, <<>>, "", <<>>)
RStr(s) == Raw("str", 0, s, "", <<>>)
RMode(m) == Raw("mode", 0, <<>>, m, <<>>)
RList(l) == Raw("list", 0, <<>>, "", l)
RDict(mode, dests) == Raw("dict", 0, <<>>, "", << mode, dests >>)
DictMode(r) == r.l[1]
DictDests(r) == r.l[2]

Whitespace ==
    {" ", "\t", "\n", "\r"}

ControlChars ==
    {"\t", "\n", "\r"}

RECURSIVE LStrip(_)
LStrip(s) ==
    IF Len(s) > 0 /\ s[1] \in Whitespace THEN LStrip(Tail(s)) ELSE s

RECURSIVE RStrip(_)
RStrip(s) ==
    IF Len(s) > 0 /\ s[Len(s)] \in Whitespace THEN RStrip(SubSeq(s, 1, Len(s) - 1)) ELSE s

\* strip whitespace, remove control chars, cut to the maximum length
CleanStr(s, maxLen) ==
    Take(SelectSeq(RStrip(LStrip(s)), LAMBDA c : c \notin ControlChars), maxLen)

\* a string value cleaned; any other type gives the empty string
SafeStr(raw, maxLen) ==
    IF raw.t = "str" THEN CleanStr(raw.s, maxLen) ELSE <<>>

Clamp(n, lo, hi) ==
    IF n < lo THEN lo ELSE IF n > hi THEN hi ELSE n

\* an int, or a numeric string, clamped into [lo, hi]; anything else is dropped
SafeInt(raw, lo, hi) ==
    CASE raw.t = "int" -> RInt(Clamp(raw.n, lo, hi))
      [] raw.t = "str" /\ IsNumeric(CleanStr(raw.s, MAX_STR_LEN)) ->
            RInt(Clamp(CastInt(CleanStr(raw.s, MAX_STR_LEN)), lo, hi))
      [] OTHER -> RNone

RECURSIVE DedupeCI(_, _)
\* case-insensitive de-duplication keeping the first occurrence
DedupeCI(items, seen) ==
    IF items = <<>> THEN <<>>
    ELSE IF Lower(Head(items)) \in seen
         THEN DedupeCI(Tail(items), seen)
         ELSE << Head(items) >> \o DedupeCI(Tail(items), seen \cup {Lower(Head(items))})

RECURSIVE CleanItems(_, _)
CleanItems(l, maxLen) ==
    IF l = <<>> THEN <<>>
    ELSE LET s == SafeStr(Head(l), maxLen) IN
         (IF s = <<>> THEN <<>> ELSE << s >>) \o CleanItems(Tail(l), maxLen)

\* a list of strings: cleaned, empties dropped, de-duplicated, capped
SafeList(raw, maxItems, maxLen) ==
    IF raw.t = "list" THEN Take(DedupeCI(CleanItems(raw.l, maxLen), {}), maxItems) ELSE <<>>

SafeMode(raw) ==
    IF raw.t = "mode" /\ raw.m \in VALID_MODES THEN raw.m ELSE "includes"

RECURSIVE CleanRows(_)
\* rows that are dicts with at least one destination left
CleanRows(l) ==
    IF l = <<>> THEN <<>>
    ELSE LET r == Head(l)
             dests == IF r.t = "dict"
                      THEN SafeList(DictDests(r), MAX_DESTS_PER_ROW, MAX_DEST_LEN)
                      ELSE <<>>
         IN (IF dests = <<>> THEN <<>>
             ELSE << [mode |-> SafeMode(DictMode(r)), destinations |-> dests] >>)
            \o CleanRows(Tail(l))

SafeRows(raw) ==
    IF raw.t = "list" THEN Take(CleanRows(raw.l), MAX_SEARCH_ROWS) ELSE <<>>

\* faulty variant: the bounds are clamped but never swapped
NeverSwapped(lo, hi) ==
    << lo, hi >>

\* "auto-swap if min > max"
SwapIfInverted(lo, hi) ==
    IF lo.t = "int" /\ hi.t = "int" /\ lo.n > hi.n THEN << hi, lo >> ELSE << lo, hi >>

OptKey(k, present, v) ==
    IF present THEN [x \in {k} |-> v] ELSE <<>>

\* _sanitize_filters(filters): never raises
SanitizeFilters(f) ==
    LET rows == SafeRows(f.search_rows)
        cs == SafeList(f.countries, MAX_FACET_ITEMS, MAX_STR_LEN)
        vts == SafeList(f.vacation_types, MAX_FACET_ITEMS, MAX_STR_LEN)
        d == SwapIfInverted(SafeInt(f.duration_min, DURATION_MIN, DURATION_MAX),
                            SafeInt(f.duration_max, DURATION_MIN, DURATION_MAX))
    IN Merge(Merge(Merge(Merge(
            OptKey("search_rows", rows # <<>>, rows),
            OptKey("countries", cs # <<>>, cs)),
            OptKey("vacation_types", vts # <<>>, vts)),
            OptKey("duration_min", d[1].t = "int", d[1].n)),
            OptKey("duration_max", d[2].t = "int", d[2].n))

\* ---- the raw inputs tried

MaxInRows ==
    6

MaxInDests ==
    11

MaxInFacets ==
    21

DigitChar(n) ==
    << "0", "1", "2", "3", "4", "5", "6", "7", "8", "9" >>[n + 1]

ItemName(prefix, i) ==
    << prefix, DigitChar((i \div 10) % 10), DigitChar(i % 10) >>

NameList(prefix, n) ==
    [i \in 1..n |-> RStr(ItemName(prefix, i))]

LongName ==
    [i \in 1..(MAX_DEST_LEN + 1) |-> "x"]

\* duplicates in another case, padding, a control character, a number, an over-long name
MessyList ==
    << RStr(sLondon), RStr(sLondonLc), RStr(<< " ", "R", "o", "\t", "m", "e", " " >>),
       RInt(42), RStr(<< " ", " " >>), RStr(LongName), RNone >>

RawDestLists ==
    { RList(NameList("d", MaxInDests)), RList(NameList("d", 1)), RList(MessyList),
      RStr(sLondon), RNone }

RawRow(mode, dests) ==
    RDict(mode, dests)

RawModes ==
    { RMode("starts_in"), RMode("anywhere"), RInt(1) }

RawRowLists ==
    { RList([i \in 1..MaxInRows |-> RawRow(RMode("ends_in"), RList(NameList("d", MaxInDests)))]),
      RInt(5),
      RNone }
    \cup { RList(<< RInt(3), RawRow(m, d) >>) : m \in RawModes, d \in RawDestLists }

RawFacets ==
    { RList(NameList("f", MaxInFacets)), RList(MessyList), RStr(sItaly), RNone }

RawDurations ==
    { RInt(-5), RInt(0), RInt(7), RInt(14), RInt(400), RStr(d10), RStr(dNA), RList(<<>>), RNone }

SanInit ==
    /\ sanIn \in [search_rows : RawRowLists, countries : RawFacets,
                  vacation_types : { RList(NameList("v", MaxInFacets)), RInt(0), RNone },
                  duration_min : RawDurations, duration_max : RawDurations]
    /\ sanOut = <<>>
    /\ sanPc = "raw"

\* the sanitising stage of recommend(filters)
SanitizeCall ==
    /\ sanPc = "raw"
    /\ sanOut' = SanitizeFilters(sanIn)
    /\ sanPc' = "done"
    /\ UNCHANGED sanIn
    /\ SanOnly

SanNext ==
    SanitizeCall

InRange(f, k) ==
    Has(f, k) => f[k] >= 1 /\ f[k] <= 365

\* C6: for every input filter structure, including negative, oversized or
\* type-confused values, the sanitiser returns a filter with at most 5 search
\* rows, at most 10 destinations per row, at most 20 entries in each facet
\* multi-select, and duration bounds within [1,365] with min <= max.
C6_SanitisedIsBounded ==
    /\ DOMAIN SanitizeFilters(sanIn) \subseteq
            {"search_rows", "countries", "vacation_types", "duration_min", "duration_max"}
    /\ sanPc = "done" =>
        /\ Has(sanOut, "search_rows") =>
            /\ Len(sanOut["search_rows"]) <= 5
            /\ \A i \in 1..Len(sanOut["search_rows"]) :
                /\ Len(sanOut["search_rows"][i].destinations) <= 10
                /\ sanOut["search_rows"][i].mode \in {"starts_in", "ends_in", "includes"}
        /\ Has(sanOut, "countries") => Len(sanOut["countries"]) <= 20
        /\ Has(sanOut, "vacation_types") => Len(sanOut["vacation_types"]) <= 20
        /\ InRange(sanOut, "duration_min")
        /\ InRange(sanOut, "duration_max")
        /\ (Has(sanOut, "duration_min") /\ Has(sanOut, "duration_max"))
            => sanOut["duration_min"] <= sanOut["duration_max"]

\* an oversized request with a negative minimum and a too-large maximum was
\* cut down to the caps
C6_Witness ==
    /\ sanPc = "done"
    /\ sanIn.search_rows.t = "list"
    /\ Len(sanIn.search_rows.l) > 5
    /\ sanIn.countries.t = "list"
    /\ Len(sanIn.countries.l) > 20
    /\ sanIn.duration_min = RInt(400)
    /\ sanIn.duration_max = RInt(-5)
    /\ Len(sanOut["search_rows"]) = 5
    /\ Len(sanOut["search_rows"][1].destinations) = 10
    /\ Len(sanOut["countries"]) = 20
    /\ sanOut["duration_min"] = 1
    /\ sanOut["duration_max"] = 365

-----------------------------------------------------------------------------
(* Package Finder controller *)

MaxRows ==
    2

MaxRowId ==
    3

\* what the user can type or pick as a destination
sLondonPadded ==
    << " ", "L", "o", "n", "d", "o", "n", " " >>

TypedDests ==
    { sLondonPadded, sLondonLc }

\* String.prototype.trim
Trim(s) ==
    RStrip(LStrip(s))

SearchRow(id, dests, mode) ==
    [id |-> id, destinations |-> dests, mode |-> mode]

RowIndex(rowId) ==
    CHOOSE i \in 1..Len(searchRows) : searchRows[i].id = rowId

HasRow(rowId) ==
    \E i \in 1..Len(searchRows) : searchRows[i].id = rowId

\* buildFilters(): the search_rows of the request; rows without destinations
\* are left out
BuildFilters(rows) ==
    LET sent == SelectSeq(rows, LAMBDA r : Len(r.destinations) # 0)
        srs == [i \in 1..Len(sent) |-> [mode |-> sent[i].mode, destinations |-> sent[i].destinations]]
    IN Merge(OptKey("search_rows", Len(srs) > 0, srs), [sort_by |-> "popularity"])

\* apiFetch(path, options, retries): the call in flight
NoFetch ==
    [active |-> FALSE, attempt |-> 0, retries |-> 0, timer |-> FALSE]

\* the abort timer is armed once, before the first attempt
NewFetch(retries) ==
    [active |-> TRUE, attempt |-> 0, retries |-> retries, timer |-> TRUE]

SEARCH_RETRIES ==
    1

\* faulty variant: a search that threw is shown like a search without matches
RenderErrorAsEmpty(outcome) ==
    CASE outcome = "rows" -> "results"
      [] OTHER -> "noResults"

\* what doSearch() puts into #results-list for what apiFetch gave it
RenderOutcome(outcome) ==
    CASE outcome = "rows" -> "results"
      [] outcome = "empty" -> "noResults"
      [] OTHER -> "failed"

\* the page as loaded; rec says whether the history variables are kept
FinderStart(rec) ==
    /\ searchRows = << SearchRow(1, <<>>, "includes") >>
    /\ nextRowId = 2
    /\ searching = FALSE
    /\ view = "emptyState"
    /\ fetch = NoFetch
    /\ lastOutcome = "none"
    /\ autoTimer = FALSE
    /\ recording = rec
    /\ filtersSent = <<>>
    /\ filtersShown = <<>>
    /\ inFlight = 0

FinderInit ==
    FinderStart(FALSE)

\* autoSearch(): (re)arm the 500 ms debounce timer
AutoSearch ==
    autoTimer' = TRUE

\* faulty variant: doSearch() without the test of state.searching
DoSearchUnguarded(rows) ==
    /\ searching' = TRUE
    /\ view' = "loading"
    /\ fetch' = NewFetch(SEARCH_RETRIES)
    /\ filtersSent' = IF recording THEN BuildFilters(rows) ELSE <<>>
    /\ inFlight' = inFlight + 1

\* doSearch(): a call while a search is in flight returns at once; otherwise
\* the loading indicator is shown and the request is sent
DoSearch(rows) ==
    IF searching
    THEN UNCHANGED <<searching, view, fetch, filtersSent, inFlight>>
    ELSE /\ searching' = TRUE
         /\ view' = "loading"
         /\ fetch' = NewFetch(SEARCH_RETRIES)
         /\ filtersSent' = IF recording THEN BuildFilters(rows) ELSE <<>>
         /\ inFlight' = inFlight + 1

\* addSearchRow(), on the state of the Package Finder
AddRow ==
    /\ searchRows' = Append(searchRows, SearchRow(nextRowId, <<>>, "includes"))
    /\ nextRowId' = nextRowId + 1
    /\ UNCHANGED <<searching, view, fetch, lastOutcome, autoTimer, recording, filtersSent, filtersShown, inFlight>>

addSearchRow ==
    /\ Len(searchRows) < MaxRows
    /\ nextRowId <= MaxRowId
    /\ AddRow
    /\ FinderOnly

removeSearchRow(rowId) ==
    /\ HasRow(rowId)
    /\ Len(searchRows) > 1
    /\ searchRows' = SelectSeq(searchRows, LAMBDA r : r.id # rowId)
    /\ AutoSearch
    /\ UNCHANGED <<nextRowId, searching, view, fetch, lastOutcome, recording, filtersSent, filtersShown, inFlight>>
    /\ FinderOnly

\* faulty variant: the row takes an eleventh destination
RowWithDestNoCap(row, dest) ==
    LET v == Trim(dest) IN
    IF \/ Len(v) = 0
       \/ Len(v) > 100
       \/ \E i \in 1..Len(row.destinations) : Lower(row.destinations[i]) = Lower(v)
    THEN row
    ELSE [row EXCEPT !.destinations = Append(@, v)]

\* the row after addDestToRow(rowId, dest)
RowWithDest(row, dest) ==
    LET v == Trim(dest) IN
    IF \/ Len(v) = 0
       \/ Len(v) > 100
       \/ \E i \in 1..Len(row.destinations) : Lower(row.destinations[i]) = Lower(v)
       \/ Len(row.destinations) >= 10
    THEN row
    ELSE [row EXCEPT !.destinations = Append(@, v)]

\* addDestToRow(rowId, dest), on the state of the Package Finder
AddDest(rowId, dest) ==
    /\ HasRow(rowId)
    /\ IF RowWithDest(searchRows[RowIndex(rowId)], dest) = searchRows[RowIndex(rowId)]
       THEN UNCHANGED <<searchRows, autoTimer>>
       ELSE /\ searchRows' = [searchRows EXCEPT
                                ![RowIndex(rowId)] = RowWithDest(searchRows[RowIndex(rowId)], dest)]
            /\ AutoSearch
    /\ UNCHANGED <<nextRowId, searching, view, fetch, lastOutcome, recording, filtersSent, filtersShown, inFlight>>

addDestToRow(rowId, dest) ==
    /\ AddDest(rowId, dest)
    /\ FinderOnly

\* removeDestFromRow(rowId, dest), on the state of the Package Finder
RemoveDest(rowId, dest) ==
    /\ HasRow(rowId)
    /\ searchRows' = [searchRows EXCEPT ![RowIndex(rowId)].destinations =
                        SelectSeq(@, LAMBDA d : d # dest)]
    /\ AutoSearch
    /\ UNCHANGED <<nextRowId, searching, view, fetch, lastOutcome, recording, filtersSent, filtersShown, inFlight>>

removeDestFromRow(rowId, dest) ==
    /\ RemoveDest(rowId, dest)
    /\ FinderOnly

\* a click on an option of the row's mode dropdown
selectMode(rowId, mode) ==
    /\ HasRow(rowId)
    /\ searchRows' = [searchRows EXCEPT ![RowIndex(rowId)].mode = mode]
    /\ AutoSearch
    /\ UNCHANGED <<nextRowId, searching, view, fetch, lastOutcome, recording, filtersSent, filtersShown, inFlight>>
    /\ FinderOnly

\* the debounce timer fires: doSearch()
AutoSearchFires ==
    /\ autoTimer
    /\ autoTimer' = FALSE
    /\ DoSearch(searchRows)
    /\ UNCHANGED <<searchRows, nextRowId, lastOutcome, recording, filtersShown>>
    /\ FinderOnly

\* doSearch() called directly: page load, Ctrl+Enter, the Try Again button
DoSearchNow ==
    /\ ~searching
    /\ DoSearch(searchRows)
    /\ UNCHANGED <<searchRows, nextRowId, lastOutcome, autoTimer, recording, filtersShown>>
    /\ FinderOnly

clearAll ==
    /\ searchRows' = << SearchRow(1, <<>>, "includes") >>
    /\ nextRowId' = 2
    /\ DoSearch(searchRows')
    /\ UNCHANGED <<lastOutcome, autoTimer, recording, filtersShown>>
    /\ FinderOnly

\* doSearch() after apiFetch returned or threw
FinishSearch(outcome) ==
    /\ view' = RenderOutcome(outcome)
    /\ searching' = FALSE
    /\ fetch' = NoFetch
    /\ lastOutcome' = outcome
    /\ filtersShown' = filtersSent
    /\ inFlight' = inFlight - 1

\* the attempt got a 2xx response whose body lists packages, or none
FetchResponds(outcome) ==
    /\ fetch.active
    /\ outcome \in {"rows", "empty"}
    /\ FinishSearch(outcome)
    /\ UNCHANGED <<searchRows, nextRowId, autoTimer, recording, filtersSent>>
    /\ FinderOnly

\* the attempt failed: a 4xx or 5xx status, or a network error; only the
\* last two are tried again (after a back-off), with the abort timer cleared
FetchFails(outcome) ==
    /\ fetch.active
    /\ outcome \in {"http4xx", "http5xx", "network"}
    /\ IF fetch.attempt < fetch.retries /\ outcome # "http4xx"
       THEN /\ fetch' = [fetch EXCEPT !.attempt = @ + 1, !.timer = FALSE]
            /\ UNCHANGED <<searching, view, lastOutcome, filtersShown, inFlight>>
       ELSE FinishSearch(outcome)
    /\ UNCHANGED <<searchRows, nextRowId, autoTimer, recording, filtersSent>>
    /\ FinderOnly

\* the abort timer fires while the first attempt is pending: 'Request timed out.'
FetchTimesOut ==
    /\ fetch.active
    /\ fetch.timer
    /\ FinishSearch("timeout")
    /\ UNCHANGED <<searchRows, nextRowId, autoTimer, recording, filtersSent>>
    /\ FinderOnly

RowIds ==
    1..MaxRowId

FinderNext ==
    \/ addSearchRow
    \/ \E id \in RowIds : removeSearchRow(id)
    \/ \E id \in RowIds, d \in TypedDests : addDestToRow(id, d)
    \/ \E id \in RowIds, d \in {Trim(x) : x \in TypedDests} : removeDestFromRow(id, d)
    \/ \E id \in RowIds, m \in VALID_MODES : selectMode(id, m)
    \/ AutoSearchFires
    \/ DoSearchNow
    \/ clearAll
    \/ \E o \in {"rows", "empty"} : FetchResponds(o)
    \/ \E o \in {"http4xx", "http5xx", "network"} : FetchFails(o)
    \/ FetchTimesOut

SearchFailures ==
    {"http4xx", "http5xx", "network", "timeout"}

\* C5: "no matches" and "could not search" are never conflated: a search
\* whose request or store query fails is shown as the 'Search failed' card
\* and never as 'No matching packages'; a search that matches zero packages
\* is shown as 'No matching packages' and never as an error.
C5_EmptyIsNotFailure ==
    /\ view = "noResults" => lastOutcome = "empty"
    /\ view = "failed" => lastOutcome \in SearchFailures
    /\ (~searching /\ lastOutcome = "empty") => view = "noResults"
    /\ (~searching /\ lastOutcome \in SearchFailures) => view = "failed"

\* a search with destinations failed on its retry
C5_Witness ==
    /\ view = "failed"
    /\ lastOutcome = "http5xx"
    /\ ~searching
    /\ \E i \in 1..Len(searchRows) : Len(searchRows[i].destinations) > 0

-----------------------------------------------------------------------------
(* Autosuggest: fetchSuggestions(query, field, limit, mode) *)

sGlonwick ==
    <<"G", "l", "o", "n", "w", "i", "c", "k">>
sBologna ==
    <<"B", "o", "l", "o", "g", "n", "a">>
sToulon ==
    <<"T", "o", "u", "l", "o", "n">>
sLonato ==
    <<"l", "o", "n", "a", "t", "o">>
qLon ==
    <<"l", "o", "n">>
qLo ==
    << "l", "o" >>

qLonUc ==
    <<"L", "o", "n">>

MaxItems ==
    3

SuggestPool ==
    { sLondon, sGlonwick, sBologna, sToulon, sLonato }

Alphabet ==
    << "a", "b", "c", "d", "e", "f", "g", "h", "i", "j", "k", "l", "m",
       "n", "o", "p", "q", "r", "s", "t", "u", "v", "w", "x", "y", "z" >>

Rank(c) ==
    CHOOSE i \in 1..Len(Alphabet) : Alphabet[i] = LowerChar(c)

\* a lower-case letter sorts before its capital
CaseRank(c) ==
    IF c \in DOMAIN UpperToLower THEN 1 ELSE 0

\* the weight of a letter: its place in the alphabet, or its case
Weight(c, byCase) ==
    IF byCase THEN CaseRank(c) ELSE Rank(c)

\* -1, 0 or 1 as a sorts before, with or after b, weight by weight from position i
RECURSIVE CompareFrom(_, _, _, _)
CompareFrom(a, b, i, byCase) ==
    CASE i > Len(a) /\ i > Len(b) -> 0
      [] i > Len(a) -> -1
      [] i > Len(b) -> 1
      [] Weight(a[i], byCase) < Weight(b[i], byCase) -> -1
      [] Weight(a[i], byCase) > Weight(b[i], byCase) -> 1
      [] OTHER -> CompareFrom(a, b, i + 1, byCase)

\* String.prototype.localeCompare on words of letters: alphabetical ignoring
\* case; words equal up to case are told apart by case
LocaleCompare(a, b) ==
    IF CompareFrom(a, b, 1, FALSE) # 0
    THEN CompareFrom(a, b, 1, FALSE)
    ELSE CompareFrom(a, b, 1, TRUE)

\* faulty variant: the length key is left out of the comparator
SuggestCompareNoLength(a, b, ql) ==
    LET aStarts == IF StartsWith(Lower(a), ql) THEN 0 ELSE 1
        bStarts == IF StartsWith(Lower(b), ql) THEN 0 ELSE 1
    IN IF aStarts # bStarts THEN aStarts - bStarts
       ELSE LocaleCompare(a, b)

\* the comparator of items.sort(...): negative when a goes first
SuggestCompare(a, b, ql) ==
    LET aStarts == IF StartsWith(Lower(a), ql) THEN 0 ELSE 1
        bStarts == IF StartsWith(Lower(b), ql) THEN 0 ELSE 1
    IN IF aStarts # bStarts THEN aStarts - bStarts
       ELSE IF Len(a) # Len(b) THEN Len(a) - Len(b)
       ELSE LocaleCompare(a, b)

\* x put into the sorted list s behind everything that does not sort after it
RECURSIVE InsertSorted(_, _, _)
InsertSorted(s, x, ql) ==
    IF s = <<>> THEN << x >>
    ELSE IF SuggestCompare(s[Len(s)], x, ql) <= 0
         THEN Append(s, x)
         ELSE Append(InsertSorted(SubSeq(s, 1, Len(s) - 1), x, ql), s[Len(s)])

\* faulty variant: the response is shown in the order the endpoint sent it
KeepEndpointOrder(items, ql) ==
    items

\* Array.prototype.sort with the comparator (a stable sort)
RECURSIVE SortSuggestions(_, _)
SortSuggestions(items, ql) ==
    IF items = <<>> THEN <<>>
    ELSE InsertSorted(SortSuggestions(SubSeq(items, 1, Len(items) - 1), ql), items[Len(items)], ql)

Min(a, b) ==
    IF a < b THEN a ELSE b

\* Math.min(limit * 3, 50)
FetchLimit(limit) ==
    Min(limit * 3, 50)

\* the autosuggest endpoint: rows LIKE the query, starts-with matches first
AutosuggestEndpoint(query, rows, fetchLimit) ==
    LET found == SelectSeq(rows, LAMBDA v : Like(Lower(v), Lower(query)))
        starts == SelectSeq(found, LAMBDA v : StartsWith(Lower(v), Lower(query)))
        others == SelectSeq(found, LAMBDA v : ~StartsWith(Lower(v), Lower(query)))
    IN Take(starts \o others, fetchLimit)

\* items.sort(...) and items.slice(0, limit) on the response
RankSuggestions(query, items, limit) ==
    Take(SortSuggestions(items, Lower(query)), limit)

SeqsUpTo(S, n) ==
    UNION { [1..k -> S] : k \in 0..n }

SuggestQueries ==
    { qLon, qLonUc, qLo, <<>> }

SuggestLimits ==
    { 1, 2, 12 }

SugInit ==
    /\ \E q \in SuggestQueries, rows \in SeqsUpTo(SuggestPool, MaxItems), limit \in SuggestLimits :
          sugIn = [query |-> q, limit |-> limit, rows |-> rows, items |-> <<>>]
    /\ sugOut = <<>>
    /\ sugPc = "request"

\* if (!query || query.length < 1) return []
SkipEmptyQuery ==
    /\ sugPc = "request"
    /\ Len(sugIn.query) < 1
    /\ sugOut' = <<>>
    /\ sugPc' = "skipped"
    /\ UNCHANGED sugIn
    /\ SugOnly

\* the awaited request comes back with the endpoint's suggestions
EndpointResponds ==
    /\ sugPc = "request"
    /\ Len(sugIn.query) >= 1
    /\ sugIn' = [sugIn EXCEPT !.items = AutosuggestEndpoint(sugIn.query, sugIn.rows, FetchLimit(sugIn.limit))]
    /\ sugPc' = "response"
    /\ UNCHANGED sugOut
    /\ SugOnly

\* the awaited request throws: catch (e) { ...; return [] }
EndpointFails ==
    /\ sugPc = "request"
    /\ Len(sugIn.query) >= 1
    /\ sugOut' = <<>>
    /\ sugPc' = "failed"
    /\ UNCHANGED sugIn
    /\ SugOnly

\* the rest of fetchSuggestions: sort the response, cut it to the limit
RankResponse ==
    /\ sugPc = "response"
    /\ sugOut' = RankSuggestions(sugIn.query, sugIn.items, sugIn.limit)
    /\ sugPc' = "ranked"
    /\ UNCHANGED sugIn
    /\ SugOnly

SugNext ==
    \/ SkipEmptyQuery
    \/ EndpointResponds
    \/ EndpointFails
    \/ RankResponse

Count(s, x) ==
    Cardinality({ i \in 1..Len(s) : s[i] = x })

IsPrefixMatch(v, q) ==
    StartsWith(Lower(v), Lower(q))

\* alphabetical order of two words: the first letter that differs, ignoring
\* case, decides; words equal up to case are ordered lower case first
Alphabetical(a, b) ==
    LET differ == { i \in 1..Min(Len(a), Len(b)) : LowerChar(a[i]) # LowerChar(b[i]) }
        cased == { i \in 1..Min(Len(a), Len(b)) : a[i] # b[i] }
        first(S) == CHOOSE i \in S : \A j \in S : i <= j
        pos(c) == CHOOSE n \in 1..26 : Alphabet[n] = c
    IN IF differ # {}
       THEN pos(LowerChar(a[first(differ)])) < pos(LowerChar(b[first(differ)]))
       ELSE IF Len(a) # Len(b) THEN Len(a) < Len(b)
       ELSE cased = {} \/ a[first(cased)] = LowerChar(a[first(cased)])

\* a may stand before b under the three keys
RankedBefore(a, b, q) ==
    \/ IsPrefixMatch(a, q) /\ ~IsPrefixMatch(b, q)
    \/ /\ IsPrefixMatch(a, q) <=> IsPrefixMatch(b, q)
       /\ \/ Len(a) < Len(b)
          \/ Len(a) = Len(b) /\ Alphabetical(a, b)

\* C10: the ranker orders the candidates by three keys: (1) values that
\* start with the query, ignoring case, before values that only contain it,
\* (2) shorter before longer, (3) alphabetical order; then it cuts the list
\* to the limit, so the output is a sub-list of the candidates of at most
\* `limit` entries, and no candidate left out ranks before one that is kept.
C10_ThreeKeyOrder ==
    sugPc \in { "ranked", "failed", "skipped" } =>
        /\ Len(sugOut) <= sugIn.limit
        /\ \A i, j \in 1..Len(sugOut) : i < j => RankedBefore(sugOut[i], sugOut[j], sugIn.query)
        /\ \A x \in SuggestPool : Count(sugOut, x) <= Count(sugIn.items, x)
        /\ sugPc = "ranked" =>
            /\ Len(sugOut) = Min(sugIn.limit, Len(sugIn.items))
            /\ \A x \in SuggestPool : Count(sugOut, x) < Count(sugIn.items, x) =>
                \A i \in 1..Len(sugOut) : RankedBefore(sugOut[i], x, sugIn.query)

\* three candidates were re-ordered and cut to two: the shorter word that only
\* contains the query moved ahead of a longer one that is alphabetically first
C10_Witness ==
    /\ sugPc = "ranked"
    /\ sugIn.query = qLon
    /\ sugIn.items = << sLondon, sGlonwick, sToulon >>
    /\ sugIn.limit = 2
    /\ sugOut = << sLondon, sToulon >>

-----------------------------------------------------------------------------
(* The ranker on its own: any candidate list, as a response may hold *)

RankerQueries ==
    { qLon, qLonUc, qLo }

RankerInit ==
    /\ \E q \in RankerQueries, items \in SeqsUpTo(SuggestPool, MaxItems), limit \in SuggestLimits :
          sugIn = [query |-> q, limit |-> limit, rows |-> items, items |-> items]
    /\ sugOut = <<>>
    /\ sugPc = "response"

RankerNext ==
    RankResponse

ExampleCandidates ==
    << sLondon, sGlonwick, sBologna >>

RankedExample ==
    /\ sugPc = "ranked"
    /\ sugIn.query = qLon
    /\ sugIn.items = ExampleCandidates
    /\ sugIn.limit = 12

\* C11 as stated: for the query "lon" and the candidates London, Glonwick,
\* Bologna the ranker returns London, Glonwick, Bologna.
C11_ExampleAsStated ==
    RankedExample => sugOut = << sLondon, sGlonwick, sBologna >>

\* C11, amended: for the query "lon" and the candidates London, Glonwick,
\* Bologna the ranker returns London, Bologna, Glonwick: London starts with
\* the query, and of the other two Bologna is the shorter.
C11_ExampleOrder ==
    RankedExample => sugOut = << sLondon, sBologna, sGlonwick >>

C11_Witness ==
    RankedExample /\ Len(sugOut) = 3

-----------------------------------------------------------------------------
(* Destinations typed into the search rows, one entry after the other *)

sVenice ==
    <<"V", "e", "n", "i", "c", "e">>
sZurich ==
    <<"Z", "u", "r", "i", "c", "h">>
sOslo ==
    <<"O", "s", "l", "o">>
sLondonUcPadded ==
    <<" ", " ", "L", "O", "N", "D", "O", "N", " ">>
sBlank ==
    <<" ", " ", " ">>

\* a destination of n letters
LettersOf(n) ==
    [i \in 1..n |-> "x"]

Entry(rowId, text) ==
    [row |-> rowId, text |-> text]

\* what the user types, and into which row: eleven destinations that differ,
\* the same one in other case and padded, blank and empty input, and input
\* of 100 and of 101 letters
TypedScript ==
    << Entry(1, sLondon), Entry(2, sRome), Entry(1, sLondonUcPadded), Entry(1, sBlank),
       Entry(1, sRome), Entry(1, sParis), Entry(1, sTokyo), Entry(1, LettersOf(101)),
       Entry(1, LettersOf(100)), Entry(1, sGlonwick), Entry(1, sBologna), Entry(1, sToulon),
       Entry(1, sVenice), Entry(1, sZurich), Entry(1, sOslo), Entry(2, sRomeLc),
       Entry(1, sLondonUcPadded), Entry(1, <<>>) >>

\* the next entry is typed and confirmed: addDestToRow(rowId, inputEl.value)
TypeDest ==
    /\ typed < Len(TypedScript)
    /\ AddDest(TypedScript[typed + 1].row, TypedScript[typed + 1].text)
    /\ typed' = typed + 1
    /\ TypedRowOnly

\* a click on the x of a destination chip
RemoveChip(rowId) ==
    /\ HasRow(rowId)
    /\ \E i \in 1..Len(searchRows[RowIndex(rowId)].destinations) :
          removeDestFromRow(rowId, searchRows[RowIndex(rowId)].destinations[i])

TypingInit ==
    /\ FinderInit
    /\ typed = 0

TypingNext ==
    \/ addSearchRow
    \/ TypeDest
    \/ \E id \in RowIds : RemoveChip(id)

DestsOk(dests) ==
    /\ Len(dests) <= 10
    /\ \A i \in 1..Len(dests) :
          /\ Len(dests[i]) >= 1
          /\ Len(dests[i]) <= 100
          /\ dests[i][1] # " " /\ dests[i][Len(dests[i])] # " "
    /\ \A i, j \in 1..Len(dests) : i # j => Lower(dests[i]) # Lower(dests[j])

RowsOk ==
    \A i \in 1..Len(searchRows) : DestsOk(searchRows[i].destinations)

\* the entry about to be typed would break the row's bounds if it were added
EntryWouldViolate ==
    /\ typed < Len(TypedScript)
    /\ HasRow(TypedScript[typed + 1].row)
    /\ LET e == TypedScript[typed + 1]
           r == searchRows[RowIndex(e.row)]
           v == SelectSeq(e.text, LAMBDA c : c # " ")
       IN \/ Len(r.destinations) >= 10
          \/ Len(v) = 0
          \/ Len(v) > 100
          \/ \E i \in 1..Len(r.destinations) : Lower(r.destinations[i]) = Lower(v)

\* C12: after any sequence of addDestToRow / removeDestFromRow every search
\* row holds at most 10 destinations, each a non-empty trimmed string of at
\* most 100 characters, no two of a row equal ignoring case; and an add that
\* would break this leaves the rows as they were.
C12_DestinationsBounded ==
    /\ []RowsOk
    /\ [][(EntryWouldViolate /\ typed' = typed + 1) => searchRows' = searchRows]_vars

\* the eleventh destination was typed into a full row and was not taken
C12_Witness ==
    /\ typed >= 15
    /\ Len(searchRows[1].destinations) = 10
    /\ \A i \in 1..10 : searchRows[1].destinations[i] # sOslo
    /\ searchRows[1].destinations[5] = LettersOf(100)

-----------------------------------------------------------------------------
(* The + button of the search rows *)

MaxShownRows ==
    6

\* a click on the + button of a row: addSearchRow()
ClickAddRow ==
    /\ Len(searchRows) < MaxShownRows
    /\ nextRowId <= MaxShownRows + 1
    /\ AddRow
    /\ FinderOnly

ShownRowIds ==
    1..(MaxShownRows + 1)

RowsInit ==
    FinderInit

RowsNext ==
    \/ ClickAddRow
    \/ \E id \in ShownRowIds : removeSearchRow(id)
    \/ \E id \in ShownRowIds : addDestToRow(id, sLondonLc)

\* C13: a search request holds at most 5 search rows: the Package Finder
\* never has more than 5 rows, and the search_rows list that buildFilters
\* builds never has more than 5 entries.
C13_AtMostFiveRows ==
    /\ Len(searchRows) <= 5
    /\ Has(BuildFilters(searchRows), "search_rows") => Len(BuildFilters(searchRows).search_rows) <= 5

-----------------------------------------------------------------------------
(* apiFetch: the abort timer *)

\* C14: every call through apiFetch is bounded by its timeout: every fetch
\* attempt, each retry included, has the abort timer running while it is
\* pending, and a call that timed out ends as a failure ('Request timed out.').
C14_EveryAttemptTimed ==
    /\ fetch.active => fetch.timer
    /\ (~searching /\ lastOutcome = "timeout") => view = "failed"

-----------------------------------------------------------------------------
(* Scorer: _score(row, filters) *)

\* the point table of the scoring rules
POINTS ==
    [includes_city |-> 35, includes_country |-> 25, legacy_city |-> 40, legacy_country |-> 30,
     starts_in |-> 15, ends_in |-> 15, vacation_type |-> 20, vacation_each |-> 10,
     vacation_cap |-> 20, train_each |-> 8, train_cap |-> 15, countries |-> 25,
     duration_exact |-> 15, duration_2 |-> 12, duration_4 |-> 8, duration_7 |-> 4,
     hotel_tier |-> 10, top_ranked |-> 10, highly_rated |-> 7, multi_3 |-> 5, multi_2 |-> 3,
     region |-> 5]

ABSOLUTE_CEILING ==
    100

MIN_SCORED ==
    10

UNSCORED_BASELINE ==
    5

Max(a, b) ==
    IF a > b THEN a ELSE b

Elems(s) ==
    { s[i] : i \in 1..Len(s) }

\* the destinations of the filter's search rows of one mode
ModeDests(f, mode) ==
    IF Has(f, "search_rows")
    THEN UNION { Elems(f["search_rows"][i].destinations) :
                   i \in { j \in 1..Len(f["search_rows"]) : f["search_rows"][j].mode = mode } }
    ELSE {}

Legacy(f, key) ==
    IF Has(f, key) THEN Elems(f[key]) ELSE {}

CityFound(row, d) ==
    \/ Like(Lower(row.included_cities), Lower(d))
    \/ Lower(row.start_location) = Lower(d)
    \/ Lower(row.end_location) = Lower(d)

CountryFound(row, d) ==
    Like(Lower(row.included_countries), Lower(d))

\* number of countries of a pipe-delimited included_countries value
CountryCount(row) ==
    Cardinality({ i \in 1..Len(row.included_countries) : row.included_countries[i] = "|" }) + 1

\* nights between the row's duration and the requested range
DurationGap(row, f) ==
    LET d == CastInt(row.duration)
        lo == IF Has(f, "duration_min") THEN f["duration_min"] ELSE d
        hi == IF Has(f, "duration_max") THEN f["duration_max"] ELSE d
    IN IF d < lo THEN lo - d ELSE IF d > hi THEN d - hi ELSE 0

DurationPoints(row, f) ==
    IF ~(Has(f, "duration_min") \/ Has(f, "duration_max")) \/ ~IsNumeric(row.duration) THEN 0
    ELSE IF DurationGap(row, f) = 0 THEN POINTS.duration_exact
    ELSE IF DurationGap(row, f) <= 2 THEN POINTS.duration_2
    ELSE IF DurationGap(row, f) <= 4 THEN POINTS.duration_4
    ELSE IF DurationGap(row, f) <= 7 THEN POINTS.duration_7
    ELSE 0

Matches(row, col, values) ==
    Cardinality({ v \in values : Like(Lower(row[col]), Lower(v)) })

\* the points of every rule of the table, 0 for a rule that did not fire
RulePoints(row, f) ==
    << IF \E d \in ModeDests(f, "includes") : CityFound(row, d) THEN POINTS.includes_city ELSE 0,
       IF \E d \in ModeDests(f, "includes") : CountryFound(row, d) THEN POINTS.includes_country ELSE 0,
       IF \E d \in Legacy(f, "includes") : CityFound(row, d) THEN POINTS.legacy_city ELSE 0,
       IF \E d \in Legacy(f, "includes") : CountryFound(row, d) THEN POINTS.legacy_country ELSE 0,
       IF \E d \in ModeDests(f, "starts_in") \cup Legacy(f, "starts_in") :
             Lower(row.start_location) = Lower(d) THEN POINTS.starts_in ELSE 0,
       IF \E d \in ModeDests(f, "ends_in") \cup Legacy(f, "ends_in") :
             Lower(row.end_location) = Lower(d) THEN POINTS.ends_in ELSE 0,
       IF Matches(row, "triptype", Legacy(f, "vacation_type")) > 0 THEN POINTS.vacation_type ELSE 0,
       Min(POINTS.vacation_cap, POINTS.vacation_each * Matches(row, "triptype", Legacy(f, "vacation_types"))),
       Min(POINTS.train_cap, POINTS.train_each * Matches(row, "route", Legacy(f, "train_names"))),
       IF Matches(row, "included_countries", Legacy(f, "countries")) > 0 THEN POINTS.countries ELSE 0,
       DurationPoints(row, f),
       IF Has(f, "hotel_tier") /\ row.profitability_group \in TIER_MAP[f["hotel_tier"]]
          THEN POINTS.hotel_tier ELSE 0,
       IF row.package_rank <= 100 THEN POINTS.top_ranked
          ELSE IF row.package_rank <= 300 THEN POINTS.highly_rated ELSE 0,
       IF CountryCount(row) >= 3 THEN POINTS.multi_3
          ELSE IF CountryCount(row) = 2 THEN POINTS.multi_2 ELSE 0,
       IF Has(f, "region") /\ Like(Lower(row.included_regions), Lower(f["region"]))
          THEN POINTS.region ELSE 0 >>

RECURSIVE SumSeq(_)
SumSeq(s) ==
    IF s = <<>> THEN 0 ELSE s[1] + SumSeq(Tail(s))

\* faulty variant: the normalised score is not capped
NormalizeUncapped(raw) ==
    IF raw = 0 THEN UNSCORED_BASELINE
    ELSE Max(MIN_SCORED, (raw * 100) \div ABSOLUTE_CEILING)

\* raw / ABSOLUTE_CEILING as a percentage, capped at 100, at least MIN_SCORED;
\* UNSCORED_BASELINE when no rule gave a point
Normalize(raw) ==
    IF raw = 0 THEN UNSCORED_BASELINE
    ELSE Max(MIN_SCORED, Min(100, (raw * 100) \div ABSOLUTE_CEILING))

Score(row, f) ==
    Normalize(SumSeq(RulePoints(row, f)))

\* rows the scorer is called on: the catalog's, and one that earns only the
\* two-country bonus
ScoredRows ==
    { Catalog[i] : i \in 1..Len(Catalog) }
        \cup { Row(6, nParisTexas, sParis, sParis, sParis, cFraIta, sEurope, sScenic, sAmtrak,
                   <<"3", "0">>, "Packages - Low", "Anyday", 999) }

LegacyFilters ==
    { [includes |-> << sRome, sItaly >>, starts_in |-> << sLondon >>, ends_in |-> << sRome >>,
       vacation_type |-> << sRomance >>],
      [includes |-> << sTokyo >>],
      Merge([includes |-> << sLondon, sFrance >>],
            [search_rows |-> << [mode |-> "includes", destinations |-> << sParis, sItaly >>],
                                [mode |-> "starts_in", destinations |-> << sLondon >>],
                                [mode |-> "ends_in", destinations |-> << sRome >>] >>,
             vacation_types |-> << sRomance, sScenic >>, train_names |-> << sBernina, sEurostar >>,
             countries |-> << sItaly >>, duration_min |-> 1, duration_max |-> 8,
             hotel_tier |-> "Value", region |-> sEurope]) }

ScoreInit ==
    /\ \E row \in ScoredRows, f \in Requests \cup LegacyFilters : scoreIn = [row |-> row, filters |-> f]
    /\ scoreOut = 0
    /\ scorePc = "call"

ScoreCall ==
    /\ scorePc = "call"
    /\ scoreOut' = Score(scoreIn.row, scoreIn.filters)
    /\ scorePc' = "done"
    /\ UNCHANGED scoreIn
    /\ ScoreOnly

ScoreNext ==
    ScoreCall

RuleFired(row, f) ==
    \E i \in 1..Len(RulePoints(row, f)) : RulePoints(row, f)[i] > 0

\* C15: for every row and filter the score lies in [0,100]: the summed rule
\* points are capped at 100, the score is at least 10 whenever a scoring rule
\* fired, and it is exactly the baseline 5 when none did.
C15_ScoreInRange ==
    scorePc = "done" =>
        /\ scoreOut >= 0 /\ scoreOut <= 100
        /\ SumSeq(RulePoints(scoreIn.row, scoreIn.filters)) >= 100 => scoreOut = 100
        /\ RuleFired(scoreIn.row, scoreIn.filters) => scoreOut >= 10
        /\ ~RuleFired(scoreIn.row, scoreIn.filters) => scoreOut = 5

\* rules worth more than 100 points fired for a row, and its score is 100
C15_Witness ==
    /\ scorePc = "done"
    /\ SumSeq(RulePoints(scoreIn.row, scoreIn.filters)) > 100
    /\ scoreOut = 100

-----------------------------------------------------------------------------
(* Sorter: _apply_sort(scored, sort_by) *)

MaxSorted ==
    3

TIER_SORT_ORDER ==
    [g \in {"Packages - Low", "Packages - Standard Margin", "Package - 29/30/31%",
            "Hurtigruten Packages", "Packages - High"} |->
        CASE g = "Packages - Low" -> 1
          [] g = "Packages - Standard Margin" -> 2
          [] g = "Package - 29/30/31%" -> 3
          [] g = "Hurtigruten Packages" -> 4
          [] g = "Packages - High" -> 5]

\* TIER_SORT_ORDER.get(x["profitability_group"], 3)
TierOrder(r) ==
    IF r.profitability_group \in DOMAIN TIER_SORT_ORDER
    THEN TIER_SORT_ORDER[r.profitability_group] ELSE 3

\* the duration of a row as a number of nights, 0 for a value that is no number
NumericDuration(r) ==
    IF IsNumeric(r.duration) THEN CastInt(r.duration) ELSE 0

\* the code point order of the characters of a package name
CharCode(c) ==
    IF c = " " THEN 0
    ELSE IF c \in Digits THEN 1 + DigitVal[c]
    ELSE IF c \in DOMAIN UpperToLower THEN 10 + Rank(c)
    ELSE 40 + Rank(c)

\* a < b for two strings, code point by code point
RECURSIVE StrLess(_, _)
StrLess(a, b) ==
    IF b = <<>> THEN FALSE
    ELSE IF a = <<>> THEN TRUE
    ELSE IF CharCode(a[1]) # CharCode(b[1]) THEN CharCode(a[1]) < CharCode(b[1])
    ELSE StrLess(Tail(a), Tail(b))

\* a sorts strictly before b under the mode's key
Before(mode, a, b) ==
    CASE mode = "popularity" -> a.package_rank < b.package_rank
      [] mode = "name_asc" -> StrLess(a.external_name, b.external_name)
      [] mode = "name_desc" -> StrLess(b.external_name, a.external_name)
      [] mode = "newest" -> a.id > b.id
      [] mode = "duration_asc" -> NumericDuration(a) < NumericDuration(b)
      [] mode = "duration_desc" -> NumericDuration(a) > NumericDuration(b)
      [] mode = "price_asc" -> \/ TierOrder(a) < TierOrder(b)
                               \/ TierOrder(a) = TierOrder(b) /\ a.package_rank < b.package_rank
      [] mode = "price_desc" -> \/ TierOrder(a) > TierOrder(b)
                                \/ TierOrder(a) = TierOrder(b) /\ a.package_rank < b.package_rank
      [] OTHER -> \/ a.match_score > b.match_score
                  \/ a.match_score = b.match_score /\ a.package_rank < b.package_rank

\* x put into the sorted list s behind everything it does not sort before
RECURSIVE InsertStable(_, _, _)
InsertStable(s, x, mode) ==
    IF s = <<>> THEN << x >>
    ELSE IF Before(mode, x, s[Len(s)])
         THEN Append(InsertStable(SubSeq(s, 1, Len(s) - 1), x, mode), s[Len(s)])
         ELSE Append(s, x)

\* sorted(scored, key=...), a stable sort
RECURSIVE StableSort(_, _)
StableSort(rows, mode) ==
    IF rows = <<>> THEN <<>>
    ELSE InsertStable(StableSort(SubSeq(rows, 1, Len(rows) - 1), mode), rows[Len(rows)], mode)

Reverse(s) ==
    [i \in 1..Len(s) |-> s[Len(s) + 1 - i]]

Opposite(mode) ==
    CASE mode = "name_desc" -> "name_asc"
      [] mode = "duration_desc" -> "duration_asc"
      [] OTHER -> mode

\* faulty variant: a descending mode sorts ascending and reverses the list
ApplySortReversing(rows, mode) ==
    IF Opposite(mode) # mode THEN Reverse(StableSort(rows, Opposite(mode)))
    ELSE StableSort(rows, mode)

\* _apply_sort(scored, sort_by)
ApplySort(rows, mode) ==
    StableSort(rows, mode)

Scored(r, score) ==
    [id |-> r.id, external_name |-> r.external_name, duration |-> r.duration,
     package_rank |-> r.package_rank, profitability_group |-> r.profitability_group,
     match_score |-> score]

\* scored rows with names, durations, ranks, tiers and scores that repeat
SortPool ==
    { Scored(r, s) : r \in { Catalog[1], Catalog[2], Catalog[4], Catalog[5] }, s \in { 40 } }
      \cup { Scored(Row(6, nParisTexas, sParis, sParis, sParis, cFraIta, sEurope, sScenic, sAmtrak,
                        <<"3", "0">>, "Hurtigruten Packages", "Anyday", 250), 90),
             Scored(Row(7, nLondonRome, sLondon, sRome, cLonParRom, cFraIta, sEurope, sScenic,
                        sEurostar, d5, "Packages - Low", "Anyday", 50), 40),
             Scored(Row(8, nRomeEscape, sRome, sRome, sRome, sItaly, sEurope, sRomance, sBernina,
                        dNA, "Unlisted", "Fixed", 400), 90) }

SortModes ==
    VALID_SORTS \cup { "relevance" }

SortInit ==
    /\ \E rows \in SeqsUpTo(SortPool, MaxSorted), mode \in SortModes :
          sortIn = [rows |-> rows, mode |-> mode]
    /\ sortOut = <<>>
    /\ sortPc = "call"

SortCall ==
    /\ sortPc = "call"
    /\ sortOut' = ApplySort(sortIn.rows, sortIn.mode)
    /\ sortPc' = "done"
    /\ UNCHANGED sortIn
    /\ SortOnly

SortNext ==
    SortCall

\* the key a mode orders by
SortKey(mode, r) ==
    CASE mode = "popularity" -> << r.package_rank >>
      [] mode \in { "name_asc", "name_desc" } -> << r.external_name >>
      [] mode = "newest" -> << r.id >>
      [] mode \in { "duration_asc", "duration_desc" } -> << NumericDuration(r) >>
      [] mode \in { "price_asc", "price_desc" } -> << TierOrder(r), r.package_rank >>
      [] OTHER -> << r.match_score, r.package_rank >>

InOrder(mode, a, b) ==
    CASE mode = "name_asc" -> ~StrLess(b.external_name, a.external_name)
      [] mode = "duration_desc" -> NumericDuration(a) >= NumericDuration(b)
      [] mode = "relevance" -> \/ a.match_score > b.match_score
                               \/ a.match_score = b.match_score /\ a.package_rank <= b.package_rank
      [] OTHER -> TRUE

Only(s, x, y) ==
    SelectSeq(s, LAMBDA e : e \in { x, y })

\* C16: the Sorter returns a permutation of its input that is ordered by the
\* mode's key (name_asc: non-decreasing by name; duration_desc: non-increasing
\* by numeric duration; relevance: score descending, then rank ascending) and
\* is stable: rows with equal keys keep their prior relative order.
C16_SortedStablePermutation ==
    sortPc = "done" =>
        /\ \A x \in SortPool : Count(sortOut, x) = Count(sortIn.rows, x)
        /\ \A i, j \in 1..Len(sortOut) : i < j => InOrder(sortIn.mode, sortOut[i], sortOut[j])
        /\ \A x, y \in SortPool : SortKey(sortIn.mode, x) = SortKey(sortIn.mode, y) =>
              Only(sortOut, x, y) = Only(sortIn.rows, x, y)

\* a descending sort moved a row forward and kept two rows of equal duration
\* in the order they came in
C16_Witness ==
    /\ sortPc = "done"
    /\ sortIn.mode = "duration_desc"
    /\ Len(sortOut) = 3
    /\ sortOut # sortIn.rows
    /\ \E i \in 1..2 : /\ sortOut[i] # sortOut[i + 1]
                       /\ NumericDuration(sortOut[i]) = NumericDuration(sortOut[i + 1])

-----------------------------------------------------------------------------
(* The Package Finder with the filters of every search kept as history *)

TrackedInit ==
    FinderStart(TRUE)

\* the first search row only: destinations, mode, searches and their outcomes
TrackedNext ==
    \/ \E d \in TypedDests : addDestToRow(1, d)
    \/ \E d \in {Trim(x) : x \in TypedDests} : removeDestFromRow(1, d)
    \/ \E m \in VALID_MODES : selectMode(1, m)
    \/ AutoSearchFires
    \/ DoSearchNow
    \/ clearAll
    \/ \E o \in {"rows", "empty"} : FetchResponds(o)
    \/ \E o \in {"http4xx", "http5xx", "network"} : FetchFails(o)
    \/ FetchTimesOut

ShowsResults ==
    view \in { "results", "noResults" }

\* C17: no filter change is lost: once no search request is in flight and no
\* debounce timer is pending, the results on screen were produced by a
\* request built from the current filter state.
C17_ShownMatchesFilters ==
    (~searching /\ ~autoTimer /\ ShowsResults) => filtersShown = BuildFilters(searchRows)

-----------------------------------------------------------------------------
(* doSearch: one request at a time *)

\* C19: at most one /recommendations/search request is in flight at any
\* time: doSearch called while state.searching is true issues no request, and
\* state.searching is false again whenever a search has ended, whether it
\* succeeded or failed.
C19_OneSearchInFlight ==
    /\ inFlight <= 1
    /\ searching <=> inFlight = 1
    /\ searching <=> fetch.active

\* doSearch was called during a search (the filters changed since the request
\* was built and no timer is pending) and issued nothing
C19_Witness ==
    /\ searching
    /\ ~autoTimer
    /\ filtersSent # BuildFilters(searchRows)
    /\ inFlight = 1
    /\ lastOutcome \in SearchFailures

-----------------------------------------------------------------------------
(* The chat app: RailbookersApp.handleUserMessage and the API service *)

\* this.sessionId = null
NoSessionId ==
    "null"

\* APIService.maxRetries
maxRetries ==
    2

\* handleUserMessage calls explored
MaxHandled ==
    4

\* fresh apps explored
MaxRestores ==
    1

ChatTexts ==
    {"Italy", "Plan another trip"}

\* no api._fetch call is running; last is how the latest attempt ended
NoChatFetch ==
    [active |-> FALSE, retries |-> 0, phase |-> "none", last |-> "none"]

\* _fetch(url, options, retries = 0): the attempt waits for fetch() with its
\* abort timer armed
NewChatFetch ==
    [active |-> TRUE, retries |-> 0, phase |-> "fetch", last |-> "none"]

\* statuses the endpoint answers with when it does not answer 2xx
ErrorStatuses ==
    { 404, 503 }

StatusClass(status) ==
    IF status >= 500 THEN "5xx" ELSE "4xx"

UserMessage(message) ==
    [role |-> "user", content |-> message]

\* the loading bubble: an assistant message with empty content
LoadingMessage ==
    [role |-> "assistant", content |-> ""]

\* what api.sendMessage returns when _fetch throws
ErrorObject(error) ==
    [success |-> FALSE,
     message |-> "Unable to connect to the server. Please check your connection and try again.",
     error |-> error]

\* String(n)
RECURSIVE String(_)
String(n) ==
    IF n < 10 THEN << CHOOSE d \in Digits : DigitVal[d] = n >>
    ELSE Append(String(n \div 10), CHOOSE d \in Digits : DigitVal[d] = n % 10)

NoStorage ==
    [set |-> FALSE, rb_session_id |-> "", rb_step |-> <<>>]

NothingSaved ==
    [set |-> FALSE, sessionId |-> NoSessionId, currentStep |-> 0]

\* _saveSession(): setItem('rb_session_id', this.sessionId || ''),
\* setItem('rb_step', String(this.currentStep))
SaveSession(sid, stepNo) ==
    [set |-> TRUE,
     rb_session_id |-> IF sid = NoSessionId THEN "" ELSE sid,
     rb_step |-> String(stepNo)]

\* faulty variant: the step is read back from its first digit only
RestoreSessionFirstDigit(store) ==
    IF store.set /\ store.rb_session_id # ""
    THEN [sessionId |-> store.rb_session_id,
          currentStep |-> IF store.rb_step = <<>> THEN 0 ELSE CastInt(<< store.rb_step[1] >>)]
    ELSE [sessionId |-> NoSessionId, currentStep |-> 0]

\* _restoreSession() on the fields the constructor set: if (sid) {
\* sessionId = sid; currentStep = parseInt(step || '0', 10) }
RestoreSession(store) ==
    IF store.set /\ store.rb_session_id # ""
    THEN [sessionId |-> store.rb_session_id,
          currentStep |-> IF store.rb_step = <<>> THEN 0 ELSE CastInt(store.rb_step)]
    ELSE [sessionId |-> NoSessionId, currentStep |-> 0]

NoBubble ==
    [text |-> "", retry |-> FALSE]

\* the bubble of the catch block of handleUserMessage, with its 'Try again'
\* button
ErrorBubble(error) ==
    [text |-> IF error = "Request timed out. Please try again."
              THEN "The request took too long. Please try again."
              ELSE "Unable to connect to the server. Please check your connection and try again.",
     retry |-> TRUE]

\* no api.sendMessage call has returned yet
NoResponse ==
    [message |-> ""]

\* bodies the /planner/chat endpoint answers with: session_id and step_number
\* are each present or absent
ChatResponses ==
    {[message |-> "ok"]}
    \cup {[message |-> "ok", session_id |-> s] : s \in {"s1", "s2"}}
    \cup {[message |-> "ok", step_number |-> n] : n \in {1, 3}}
    \cup {[message |-> "ok", session_id |-> s, step_number |-> n] : s \in {"s1", "s2"}, n \in {1, 3, 10}}

\* faulty variant: handleUserMessage without the _sending guard
HandleUnguarded(message) ==
    /\ sending' = TRUE
    /\ messages' = messages \o <<UserMessage(message), LoadingMessage>>
    /\ chatFetch' = NewChatFetch
    /\ chatInFlight' = chatInFlight + 1
    /\ bubble' = NoBubble
    /\ UNCHANGED <<sessionId, currentStep, chatResponse, storage, saved>>

\* handleUserMessage up to its await: the guard, the flag, the user message,
\* the loading bubble and the api.sendMessage call
Handle(message) ==
    IF sending
    THEN UNCHANGED <<messages, sessionId, currentStep, sending, chatFetch, chatInFlight, chatResponse,
                    bubble, storage, saved>>
    ELSE HandleUnguarded(message)

handleUserMessage(message) ==
    /\ handled < MaxHandled
    /\ handled' = handled + 1
    /\ Handle(message)
    /\ UNCHANGED restores
    /\ ChatOnly

\* handleUserMessage after the await: the response's session_id and
\* step_number are taken when present, and the finally block clears the flag
Resume(response, outcome) ==
    /\ sessionId' = IF Has(response, "session_id") THEN response.session_id ELSE sessionId
    /\ currentStep' = IF Has(response, "step_number") THEN response.step_number ELSE currentStep
    /\ sending' = FALSE
    /\ chatFetch' = [active |-> FALSE, retries |-> chatFetch.retries, phase |-> "none", last |-> outcome]
    /\ chatInFlight' = chatInFlight - 1
    /\ chatResponse' = response
    /\ bubble' = [text |-> response.message, retry |-> FALSE]
    /\ storage' = IF Has(response, "step_number") THEN SaveSession(sessionId', currentStep') ELSE storage
    /\ saved' = IF Has(response, "step_number")
                THEN [set |-> TRUE, sessionId |-> sessionId', currentStep |-> currentStep']
                ELSE saved
    /\ UNCHANGED <<messages, handled, restores>>

\* fetch() resolves with a 2xx response: clearTimeout(timer), and
\* sendMessage goes on to await response.json()
ChatFetchResponds ==
    /\ chatFetch.active
    /\ chatFetch.phase = "fetch"
    /\ chatFetch' = [chatFetch EXCEPT !.phase = "body", !.last = "ok"]
    /\ UNCHANGED <<messages, sessionId, currentStep, sending, chatInFlight, handled, chatResponse, pageVars>>
    /\ ChatOnly

\* response.json() resolves: sendMessage returns the body
ChatBodyArrives ==
    /\ chatFetch.active
    /\ chatFetch.phase = "body"
    /\ \E response \in ChatResponses : Resume(response, "ok")
    /\ ChatOnly

\* response.json() rejects: sendMessage returns the error object
ChatBodyFails ==
    /\ chatFetch.active
    /\ chatFetch.phase = "body"
    /\ Resume(ErrorObject("Failed to fetch"), "body")
    /\ ChatOnly

\* does _fetch call itself again after a response with this status: the
\* status >= 500 branch retries while retries < maxRetries; the Error thrown
\* for every other response is thrown inside the try block, so the catch
\* block of the same call receives it and retries on the same condition
RetriesStatus(status, retries) ==
    \/ status >= 500 /\ retries < maxRetries
    \/ retries < maxRetries

\* one more attempt, or the error object once _fetch has thrown
RetryOrGiveUp(retry, outcome, error) ==
    IF retry
    THEN /\ chatFetch' = [chatFetch EXCEPT !.retries = @ + 1, !.last = outcome]
         /\ UNCHANGED <<messages, sessionId, currentStep, sending, chatInFlight, handled, chatResponse, pageVars>>
    ELSE Resume(ErrorObject(error), outcome)

\* fetch() resolves with a response that is not ok
ChatFetchStatus ==
    /\ chatFetch.active
    /\ chatFetch.phase = "fetch"
    /\ \E status \in ErrorStatuses :
          RetryOrGiveUp(RetriesStatus(status, chatFetch.retries), StatusClass(status), "status")
    /\ ChatOnly

\* fetch() rejects with a network error: _fetch calls itself again while
\* retries < maxRetries, then throws and sendMessage returns the error object
ChatFetchFails ==
    /\ chatFetch.active
    /\ chatFetch.phase = "fetch"
    /\ RetryOrGiveUp(chatFetch.retries < maxRetries, "network", "Failed to fetch")
    /\ ChatOnly

\* the abort timer fires: _fetch throws 'Request timed out' with no retry
ChatFetchTimesOut ==
    /\ chatFetch.active
    /\ chatFetch.phase = "fetch"
    /\ Resume(ErrorObject("Request timed out. Please try again."), "timeout")
    /\ ChatOnly

ChatInit ==
    /\ messages = <<>>
    /\ sessionId = NoSessionId
    /\ currentStep = 0
    /\ sending = FALSE
    /\ chatFetch = NoChatFetch
    /\ chatInFlight = 0
    /\ handled = 0
    /\ chatResponse = NoResponse
    /\ bubble = NoBubble
    /\ storage = NoStorage
    /\ saved = NothingSaved
    /\ restores = 0

\* a fresh app on the same browser: the constructor's fields, then
\* _restoreSession() as init() calls it; requests of the old page are gone
RestoreOnFreshApp ==
    /\ restores < MaxRestores
    /\ restores' = restores + 1
    /\ messages' = <<>>
    /\ sessionId' = RestoreSession(storage).sessionId
    /\ currentStep' = RestoreSession(storage).currentStep
    /\ sending' = FALSE
    /\ chatFetch' = NoChatFetch
    /\ chatInFlight' = 0
    /\ chatResponse' = NoResponse
    /\ bubble' = NoBubble
    /\ UNCHANGED <<handled, storage, saved>>
    /\ ChatOnly

ChatNext ==
    \/ \E message \in ChatTexts : handleUserMessage(message)
    \/ ChatFetchResponds
    \/ ChatBodyArrives
    \/ ChatBodyFails
    \/ ChatFetchStatus
    \/ ChatFetchFails
    \/ ChatFetchTimesOut
    \/ RestoreOnFreshApp

UserMessages ==
    Len(SelectSeq(messages, LAMBDA m : m.role = "user"))

\* C18: at most one api.sendMessage call is in flight at any time, and a
\* handleUserMessage call made while _sending is true adds no message, leaves
\* sessionId and currentStep as they are and calls no API
C18_OneChatRequest ==
    /\ [](chatInFlight <= 1 /\ (sending <=> chatInFlight = 1))
    /\ [][(sending /\ handled' = handled + 1)
            => UNCHANGED <<messages, sessionId, currentStep, sending, chatFetch, chatInFlight, chatResponse>>]_vars

\* a call was dropped while the request of an earlier one is still in flight,
\* on its second attempt, after an earlier exchange set the session and step
C18_Witness ==
    /\ sending
    /\ chatInFlight = 1
    /\ chatFetch.retries = 1
    /\ handled = 4
    /\ UserMessages = 2
    /\ sessionId = "s1"
    /\ currentStep = 3

-----------------------------------------------------------------------------
(* A search row's input: setupRowAutosuggest *)

\* fetchSuggestions calls explored
MaxQueries ==
    3

qPar ==
    <<"p", "a", "r">>

\* texts the traveller leaves in the input
InputTexts ==
    { <<>>, qLo, qLon, qPar }

\* the location list behind the autosuggest endpoint
DropRows ==
    << sLondon, sGlonwick, sToulon, sParis >>

HiddenDropdown ==
    [visible |-> FALSE, items |-> <<>>, query |-> <<>>, seq |-> 0]

\* fetchSuggestions(query, 'all', 12, mode) when the endpoint answers
Suggestions(query) ==
    RankSuggestions(query, AutosuggestEndpoint(query, DropRows, FetchLimit(12)), 12)

\* hideSuggestions(dropdownEl)
Hide(d) ==
    [d EXCEPT !.visible = FALSE]

\* showSuggestions(dropdownEl, items, onSelect), for the list request r got
Show(items, r) ==
    [visible |-> Len(items) > 0, items |-> items, query |-> r.query, seq |-> r.seq]

\* an input event: the text changes and the 250 ms debounce timer is re-armed
TypeText ==
    /\ focused
    /\ \E v \in InputTexts :
          /\ v # inputValue
          /\ inputValue' = v
    /\ sugTimer' = TRUE
    /\ UNCHANGED <<focused, hideTimer, pending, nextSeq, dropdown, answered>>
    /\ UNCHANGED finderVars
    /\ DropOnly

\* focus: if (inputEl.value.trim().length >= 1) debouncedFetch()
FocusInput ==
    /\ ~focused
    /\ focused' = TRUE
    /\ sugTimer' = IF Len(Trim(inputValue)) >= 1 THEN TRUE ELSE sugTimer
    /\ UNCHANGED <<inputValue, hideTimer, pending, nextSeq, dropdown, answered>>
    /\ UNCHANGED finderVars
    /\ DropOnly

\* blur: setTimeout(() => hideSuggestions(dropdownEl), 250)
BlurInput ==
    /\ focused
    /\ focused' = FALSE
    /\ hideTimer' = TRUE
    /\ UNCHANGED <<inputValue, sugTimer, pending, nextSeq, dropdown, answered>>
    /\ UNCHANGED finderVars
    /\ DropOnly

HideTimerFires ==
    /\ hideTimer
    /\ hideTimer' = FALSE
    /\ dropdown' = Hide(dropdown)
    /\ UNCHANGED <<inputValue, focused, sugTimer, pending, nextSeq, answered>>
    /\ UNCHANGED finderVars
    /\ DropOnly

\* the debounced callback up to its await: an empty query hides the dropdown,
\* any other is sent to fetchSuggestions
DebounceFires ==
    /\ sugTimer
    /\ sugTimer' = FALSE
    /\ IF Len(Trim(inputValue)) < 1
       THEN /\ dropdown' = Hide(dropdown)
            /\ UNCHANGED <<pending, nextSeq>>
       ELSE /\ nextSeq < MaxQueries
            /\ pending' = pending \cup { [seq |-> nextSeq + 1, query |-> Trim(inputValue)] }
            /\ nextSeq' = nextSeq + 1
            /\ UNCHANGED dropdown
    /\ UNCHANGED <<inputValue, focused, hideTimer, answered>>
    /\ UNCHANGED finderVars
    /\ DropOnly

\* the debounced callback after its await:
\* if (document.activeElement === inputEl && inputEl.value.trim().length >= 1)
ShowIfStillTyping(items, r) ==
    IF focused /\ Len(Trim(inputValue)) >= 1
    THEN Show(items, r)
    ELSE dropdown

Arrive(items, r) ==
    /\ pending' = pending \ {r}
    /\ answered' = IF r.seq > answered THEN r.seq ELSE answered
    /\ dropdown' = ShowIfStillTyping(items, r)
    /\ UNCHANGED <<inputValue, focused, sugTimer, hideTimer, nextSeq>>
    /\ UNCHANGED finderVars
    /\ DropOnly

\* the endpoint answers one of the pending calls, in any order
SuggestionsArrive ==
    \E r \in pending : Arrive(Suggestions(r.query), r)

\* the request of one of the pending calls fails: fetchSuggestions returns []
SuggestionsFail ==
    \E r \in pending : Arrive(<<>>, r)

\* mousedown on a suggestion: addDestToRow(rowId, item), the input is
\* emptied and the dropdown hidden
SelectSuggestion ==
    /\ dropdown.visible
    /\ \E i \in 1..Len(dropdown.items) : AddDest(1, dropdown.items[i])
    /\ inputValue' = <<>>
    /\ dropdown' = Hide(dropdown)
    /\ UNCHANGED <<focused, sugTimer, hideTimer, pending, nextSeq, answered>>
    /\ DropOnly

\* the Escape key while the dropdown is open
PressEscape ==
    /\ focused
    /\ dropdown.visible
    /\ dropdown' = Hide(dropdown)
    /\ UNCHANGED <<inputValue, focused, sugTimer, hideTimer, pending, nextSeq, answered>>
    /\ UNCHANGED finderVars
    /\ DropOnly

DropInit ==
    /\ FinderInit
    /\ inputValue = <<>>
    /\ focused = FALSE
    /\ sugTimer = FALSE
    /\ hideTimer = FALSE
    /\ pending = {}
    /\ nextSeq = 0
    /\ dropdown = HiddenDropdown
    /\ answered = 0

DropNext ==
    \/ TypeText
    \/ FocusInput
    \/ BlurInput
    \/ HideTimerFires
    \/ DebounceFires
    \/ SuggestionsArrive
    \/ SuggestionsFail
    \/ SelectSuggestion
    \/ PressEscape

\* a response has just put its list into the open dropdown
ListShown ==
    dropdown'.visible /\ dropdown'.seq # dropdown.seq

\* C20: a list is put into the dropdown only while the input has focus and
\* holds the query the list was fetched for, and never a list of a query older
\* than one already answered
C20_OnlyCurrentSuggestions ==
    [][ListShown => /\ focused'
                    /\ dropdown'.query = Trim(inputValue')
                    /\ dropdown'.seq > answered]_vars

-----------------------------------------------------------------------------
(* The DatePicker widget of a chat message, the message's suggestion buttons
   and the chat input *)

\* next-month clicks explored, counted from the month of calNow
MaxAhead ==
    2

\* onConfirm calls explored
MaxConfirms ==
    2

\* startDate = null
NoDate ==
    [day |-> 0, month |-> 0, year |-> 0]

IsSet(d) ==
    d # NoDate

DateOf(d, m, y) ==
    [day |-> d, month |-> m, year |-> y]

IsLeap(y) ==
    (y % 4 = 0 /\ y % 100 # 0) \/ y % 400 = 0

\* new Date(year, month + 1, 0).getDate(), months counted from 0
DaysInMonth(m, y) ==
    IF m = 1 THEN (IF IsLeap(y) THEN 29 ELSE 28)
    ELSE IF m \in {3, 5, 8, 10} THEN 30 ELSE 31

\* toDateObj(d).getTime(), in days since the start of 1970
toDateObj(d) ==
    SumSeq([i \in 1..(d.year - 1970) |-> IF IsLeap(1970 + i - 1) THEN 366 ELSE 365])
    + SumSeq([i \in 1..d.month |-> DaysInMonth(i - 1, d.year)])
    + d.day

daysBetween(a, b) ==
    toDateObj(b) - toDateObj(a)

\* the days on which the widget is attached
Todays ==
    { DateOf(15, 11, 2026), DateOf(1, 1, 2028) }

\* the day cells the traveller clicks
ClickDays ==
    { 1, 15, 31 }

\* _buildCalendar: a day of a past month, or before today in this month
DayPast(d, m, y) ==
    \/ y < calNow.year
    \/ y = calNow.year /\ m < calNow.month
    \/ y = calNow.year /\ m = calNow.month /\ d < calNow.day

\* _buildCalendar: the cells bind() gives a click handler
Cells(m, y) ==
    { d \in ClickDays : d <= DaysInMonth(m, y) /\ ~DayPast(d, m, y) }

\* _buildCalendar: the previous-month button is rendered disabled
PrevDisabled(m, y) ==
    LET pm == IF m - 1 < 0 THEN 11 ELSE m - 1
        py == IF m - 1 < 0 THEN y - 1 ELSE y
    IN py < calNow.year \/ (py = calNow.year /\ pm < calNow.month)

MonthsAhead ==
    (curYear - calNow.year) * 12 + curMonth - calNow.month

\* updBtn(): btn.disabled = !(startDate && endDate)
updBtn(s, e) ==
    ~(IsSet(s) /\ IsSet(e))

NoInput ==
    [kind |-> "empty"]

\* the text onConfirm receives: both dates and the nights between them
ConfirmMessage(s, e) ==
    [kind |-> "dates", start |-> s, end |-> e, nights |-> daysBetween(s, e)]

\* what the chat shows for a sent input
SentText(input) ==
    IF input.kind = "text" THEN input.text ELSE "date range"

\* the state right after a response with step_number 3 rendered the date
\* picker and its suggestion buttons: DatePicker.render() starts on the month
\* after today's
PickerInit ==
    /\ messages = << UserMessage("Italy"), LoadingMessage >>
    /\ sessionId = "s1"
    /\ currentStep = 3
    /\ sending = FALSE
    /\ chatFetch = NoChatFetch
    /\ chatInFlight = 0
    /\ handled = 1
    /\ chatResponse = [message |-> "ok", session_id |-> "s1", step_number |-> 3]
    /\ bubble = [text |-> "ok", retry |-> FALSE]
    /\ storage = SaveSession("s1", 3)
    /\ saved = [set |-> TRUE, sessionId |-> "s1", currentStep |-> 3]
    /\ restores = 0
    /\ calNow \in Todays
    /\ curMonth = (IF calNow.month + 1 > 11 THEN 0 ELSE calNow.month + 1)
    /\ curYear = (IF calNow.month + 1 > 11 THEN calNow.year + 1 ELSE calNow.year)
    /\ startDate = NoDate
    /\ endDate = NoDate
    /\ confirmDisabled = TRUE
    /\ navDisabled = FALSE
    /\ calDone = FALSE
    /\ actionUsed = FALSE
    /\ chatInput = NoInput
    /\ onConfirmCalls = 0

\* frame of the actions that touch the widgets and the chat
WidgetsOnly == UNCHANGED <<engineVars, cacheVars, sanVars, finderVars, sugVars, typingVars, scoreVars, sortVars, dropVars, panelVars, msVars>>

\* a click on the previous-month button, then refresh(): the header is
\* rebuilt with fresh buttons
ClickPrev ==
    /\ ~navDisabled
    /\ ~PrevDisabled(curMonth, curYear)
    /\ LET m1 == IF curMonth - 1 < 0 THEN 11 ELSE curMonth - 1
           y1 == IF curMonth - 1 < 0 THEN curYear - 1 ELSE curYear
           back == y1 < calNow.year \/ (y1 = calNow.year /\ m1 < calNow.month)
       IN /\ curMonth' = IF back THEN calNow.month ELSE m1
          /\ curYear' = IF back THEN calNow.year ELSE y1
    /\ navDisabled' = FALSE
    /\ confirmDisabled' = updBtn(startDate, endDate)
    /\ UNCHANGED <<calNow, startDate, endDate, calDone, actionUsed, chatInput, onConfirmCalls>>
    /\ PickerOnly

\* a click on the next-month button, then refresh()
ClickNext ==
    /\ ~navDisabled
    /\ MonthsAhead < MaxAhead
    /\ LET m1 == IF curMonth + 1 > 11 THEN 0 ELSE curMonth + 1
           y1 == IF curMonth + 1 > 11 THEN curYear + 1 ELSE curYear
           far == y1 > calNow.year + 2
       IN /\ curMonth' = IF far THEN 11 ELSE m1
          /\ curYear' = IF far THEN calNow.year + 2 ELSE y1
    /\ navDisabled' = FALSE
    /\ confirmDisabled' = updBtn(startDate, endDate)
    /\ UNCHANGED <<calNow, startDate, endDate, calDone, actionUsed, chatInput, onConfirmCalls>>
    /\ PickerOnly

\* faulty variant: any later click sets the end date, whatever the start
RangeAfterClickUnordered(d) ==
    LET clicked == DateOf(d, curMonth, curYear) IN
    IF ~IsSet(startDate) \/ (IsSet(startDate) /\ IsSet(endDate))
    THEN [start |-> clicked, end |-> NoDate]
    ELSE [start |-> startDate, end |-> clicked]

\* the range after a click on the cell of day d of the month on show
RangeAfterClick(d) ==
    LET clicked == DateOf(d, curMonth, curYear) IN
    IF ~IsSet(startDate) \/ (IsSet(startDate) /\ IsSet(endDate))
    THEN [start |-> clicked, end |-> NoDate]
    ELSE IF toDateObj(clicked) <= toDateObj(startDate)
         THEN [start |-> clicked, end |-> NoDate]
         ELSE [start |-> startDate, end |-> clicked]

\* c.onclick of a day cell; the cells are div elements, which the disabling
\* of 'button, select, input' leaves alone
ClickDay ==
    /\ \E d \in Cells(curMonth, curYear) :
          /\ startDate' = RangeAfterClick(d).start
          /\ endDate' = RangeAfterClick(d).end
    /\ confirmDisabled' = updBtn(startDate', endDate')
    /\ UNCHANGED <<calNow, curMonth, curYear, navDisabled, calDone, actionUsed, chatInput, onConfirmCalls>>
    /\ PickerOnly

\* confirmBtn.onclick: the widget is marked done, its buttons are disabled and
\* onConfirm(msg), which is _populateInput(msg), is called
ClickConfirm ==
    /\ ~confirmDisabled
    /\ onConfirmCalls < MaxConfirms
    /\ IF ~IsSet(startDate) \/ ~IsSet(endDate)
       THEN UNCHANGED <<calDone, confirmDisabled, navDisabled, chatInput, onConfirmCalls>>
       ELSE /\ calDone' = TRUE
            /\ confirmDisabled' = TRUE
            /\ navDisabled' = TRUE
            /\ chatInput' = ConfirmMessage(startDate, endDate)
            /\ onConfirmCalls' = onConfirmCalls + 1
    /\ UNCHANGED <<calNow, curMonth, curYear, startDate, endDate, actionUsed>>
    /\ PickerOnly

\* a click on a suggestion button that is not an auto-send command:
\* _populateInput(action)
ClickSuggestion ==
    /\ ~actionUsed
    /\ chatInput' = [kind |-> "text", text |-> "7 nights"]
    /\ UNCHANGED <<calNow, curMonth, curYear, startDate, endDate, confirmDisabled, navDisabled, calDone,
                   actionUsed, onConfirmCalls>>
    /\ PickerOnly

\* _disableActiveWidgets(): widgets not yet marked cal-done get the mark and
\* have their buttons disabled; active suggestion buttons are disabled
DisableActiveWidgets ==
    /\ calDone' = TRUE
    /\ confirmDisabled' = IF calDone THEN confirmDisabled ELSE TRUE
    /\ navDisabled' = IF calDone THEN navDisabled ELSE TRUE
    /\ actionUsed' = TRUE

\* ChatInput.send(): the trimmed text goes to handleUserMessage, which
\* disables the widgets, and the textarea is emptied
SendInput ==
    /\ ~sending
    /\ chatInput # NoInput
    /\ handled < MaxHandled
    /\ handled' = handled + 1
    /\ Handle(SentText(chatInput))
    /\ DisableActiveWidgets
    /\ chatInput' = NoInput
    /\ UNCHANGED <<calNow, curMonth, curYear, startDate, endDate, onConfirmCalls, restores>>
    /\ WidgetsOnly

PickerNext ==
    \/ ClickPrev
    \/ ClickNext
    \/ ClickDay
    \/ ClickConfirm
    \/ ClickSuggestion
    \/ SendInput
    \/ ChatFetchTimesOut

\* C21: once the widget is marked done (its Confirm was clicked or a message
\* was sent) no step calls onConfirm or puts a date range into the chat input,
\* and once the suggestion buttons are disabled no step puts their text there
C21_OldWidgetsInert ==
    [][ /\ calDone => /\ onConfirmCalls' = onConfirmCalls
                      /\ chatInput'.kind = "dates" => chatInput' = chatInput
        /\ actionUsed => (chatInput'.kind = "text" => chatInput' = chatInput) ]_vars

\* C28: an end date is set only together with an earlier start date, so the
\* nights are at least 1; no selected date is before the day the widget was
\* attached; and Confirm is enabled only while both dates are set
C28_RangeWellFormed ==
    /\ IsSet(endDate) => /\ IsSet(startDate)
                         /\ toDateObj(endDate) > toDateObj(startDate)
                         /\ daysBetween(startDate, endDate) >= 1
    /\ IsSet(startDate) => toDateObj(startDate) >= toDateObj(calNow)
    /\ IsSet(endDate) => toDateObj(endDate) >= toDateObj(calNow)
    /\ ~confirmDisabled => (IsSet(startDate) /\ IsSet(endDate))

\* a range from today, picked after going back a month, into the next year,
\* with Confirm enabled
C28_Witness ==
    /\ startDate = calNow
    /\ IsSet(endDate)
    /\ endDate.year = startDate.year + 1
    /\ daysBetween(startDate, endDate) = 17
    /\ ~confirmDisabled
    /\ ~calDone

-----------------------------------------------------------------------------
(* search(filters): termination *)

\* the search has returned or raised
SearchEnded ==
    pc \in {"Found", "Exhausted", "Failed"}

\* at most 6 relaxation steps and 7 store queries; the keys a step pops are
\* popped by no other step; a key once out of the filter stays out
RelaxationBounded ==
    /\ [](step <= 6 /\ Len(attempts) <= 7 /\ Len(attempts) <= step + 1)
    /\ [](\A i, j \in 1..Len(RelaxOrder) : i # j => RelaxOrder[i] \cap RelaxOrder[j] = {})
    /\ [][ /\ DOMAIN relaxed' \subseteq DOMAIN relaxed
           /\ step' >= step ]_vars

\* C22 as stated: every search ends Found or Exhausted, within 6 relaxation
\* steps and 7 store queries, no key dropped twice, none restored
C22_FoundOrExhausted ==
    /\ <>(pc \in {"Found", "Exhausted"})
    /\ RelaxationBounded

\* C22: every search ends Found, Exhausted or, when the store raises, Failed,
\* after at most 6 relaxation steps and 7 store queries; no secondary key is
\* dropped twice and a dropped key is never restored within the search
C22_SearchTerminates ==
    /\ <>SearchEnded
    /\ RelaxationBounded

\* a search that spent all 6 steps and 7 queries on a request with three
\* secondary filters, none of which is left
C22_Witness ==
    /\ pc = "Exhausted"
    /\ step = 6
    /\ Len(attempts) = 7
    /\ Has(request, "hotel_tier") /\ Has(request, "countries") /\ Has(request, "duration_min")
    /\ DOMAIN relaxed \cap SECONDARY_KEYS = {}

-----------------------------------------------------------------------------
(* The chat request: completion and the retry policy of APIService._fetch *)

\* a pending fetch() attempt is ended by its response, its failure or, at the
\* latest, its abort timer
AttemptEnds ==
    ChatFetchResponds \/ ChatFetchStatus \/ ChatFetchFails \/ ChatFetchTimesOut

\* C23: every handleUserMessage call that set _sending completes: _sending
\* is false again, and with it the input enabled, whatever the request does
C23_SendingCompletes ==
    sending ~> ~sending

\* the latest attempt ended in a way that _fetch is to report at once
ReportedAtOnce ==
    chatFetch'.last \in {"4xx", "timeout"}

\* C24: _fetch makes at most maxRetries + 1 = 3 attempts, starts another
\* attempt only after a network error or a response with status >= 500, and
\* ends after a 4xx response or a timed-out attempt without another attempt
C24_RetryPolicy ==
    /\ [](chatFetch.retries + 1 <= 3)
    /\ [][ chatFetch'.retries = chatFetch.retries + 1 => chatFetch'.last \in {"network", "5xx"} ]_vars
    /\ [][ (chatFetch' # chatFetch /\ ReportedAtOnce) => ~chatFetch'.active ]_vars

-----------------------------------------------------------------------------
(* The chat page: the error bubble and the saved session *)

\* the last api.sendMessage call reported a failed request
RequestFailed ==
    ~sending /\ Has(chatResponse, "error")

\* C25: after a failed chat request the bubble is the error bubble with its
\* 'Try again' button: the took-too-long text after a timeout, the
\* connection-failure text after any other failure
C25_ErrorBubbleShown ==
    RequestFailed => bubble = ErrorBubble(chatResponse.error)

\* a fresh app has just been constructed and has run _restoreSession()
Restored ==
    restores' = restores + 1

\* C27 as stated: whatever pair _saveSession wrote last, a fresh app has the
\* same sessionId and the same currentStep after _restoreSession
C27_RoundTripAlways ==
    [][(Restored /\ saved.set) => (sessionId' = saved.sessionId /\ currentStep' = saved.currentStep)]_vars

\* C27: a pair saved with a session id comes back unchanged on a fresh app;
\* a step saved while sessionId was null comes back as step 0 with no session
C27_RoundTripWithSession ==
    [][(Restored /\ saved.set) =>
          IF saved.sessionId # NoSessionId
          THEN sessionId' = saved.sessionId /\ currentStep' = saved.currentStep
          ELSE sessionId' = NoSessionId /\ currentStep' = 0]_vars

\* a fresh app came back with session s2 at the two-digit step 10
C27_Witness ==
    /\ restores = 1
    /\ messages = <<>>
    /\ saved = [set |-> TRUE, sessionId |-> "s2", currentStep |-> 10]
    /\ storage.rb_step = <<"1", "0">>
    /\ sessionId = "s2"
    /\ currentStep = 10

-----------------------------------------------------------------------------
(* The filter panels of the Package Finder: option lists, selections, chips *)

Panels ==
    { "region", "trains", "vactype" }

\* the facet values of the catalog a panel can be offered
RegionPool ==
    << sEurope >>

PanelPool(p) ==
    CASE p = "region" -> << sItaly, sFrance >>
      [] p = "trains" -> << sBernina, sEurostar >>
      [] OTHER -> << sRomance, sScenic >>

\* lists a response can carry for one key: any selection of the pool, in
\* catalog order, with or without a blank entry in front
ListsOf(pool) ==
    { SelectSeq(<< sBlank >> \o pool, LAMBDA v : v \in S) : S \in SUBSET (Elems(pool) \cup { sBlank }) }

\* (af.x || []).filter(v => v && v.trim())
NonBlank(list) ==
    SelectSeq(list, LAMBDA v : Len(v) > 0 /\ Len(Trim(v)) > 0)

\* the option list of panel p after updateFiltersFromResults(af) or init():
\* regions and countries combined for the Region panel
PanelItems(p, af) ==
    CASE p = "region" -> NonBlank(af.regions) \o NonBlank(af.countries)
      [] p = "trains" -> NonBlank(af.train_names)
      [] OTHER -> NonBlank(af.vacation_types)

\* the available_filters a search result, or the /filters answer, can carry
AvailableFilters(p) ==
    { [regions |-> r, countries |-> c, train_names |-> t, vacation_types |-> v] :
        r \in (IF p = "region" THEN ListsOf(RegionPool) ELSE { RegionPool }),
        c \in (IF p = "region" THEN ListsOf(PanelPool("region")) ELSE { PanelPool("region") }),
        t \in (IF p = "trains" THEN ListsOf(PanelPool("trains")) ELSE { PanelPool("trains") }),
        v \in (IF p = "vactype" THEN ListsOf(PanelPool("vactype")) ELSE { PanelPool("vactype") }) }

\* faulty variant: the selection is kept as it is when a result is applied
KeepSelection(selected, items) ==
    selected

\* state.selectedX = state.selectedX.filter(v => state.allX.includes(v))
StillAvailable(selected, items) ==
    SelectSeq(selected, LAMBDA v : v \in Elems(items))

\* toggleChipSelection on an array: splice the value out, or push it
Toggle(array, value) ==
    IF value \in Elems(array)
    THEN LET idx == CHOOSE i \in 1..Len(array) : array[i] = value /\ \A j \in 1..(i - 1) : array[j] # value
         IN SubSeq(array, 1, idx - 1) \o SubSeq(array, idx + 1, Len(array))
    ELSE Append(array, value)

PanelOnly == UNCHANGED <<engineVars, cacheVars, sanVars, sugVars, typingVars, scoreVars, sortVars, chatVars, dropVars, pickerVars, pageVars, msVars>>

\* the page after init() loaded /recommendations/filters and rendered the
\* chips, before its first search
PanelInit ==
    /\ FinderInit
    /\ panelName \in Panels
    /\ \E af \in AvailableFilters(panelName) : allItems = PanelItems(panelName, af)
    /\ selectedItems = <<>>
    /\ chipItems = allItems
    /\ chipsBound = TRUE
    /\ activePanel = FALSE

\* a click on the panel's pill: togglePanel(filterName) closes the open
\* panel, or opens it and renders its chips again from the current list,
\* bound to the current selection array
TogglePanel ==
    /\ activePanel' = ~activePanel
    /\ IF activePanel
       THEN UNCHANGED <<chipItems, chipsBound>>
       ELSE chipItems' = allItems /\ chipsBound' = TRUE
    /\ UNCHANGED <<panelName, allItems, selectedItems>>
    /\ UNCHANGED finderVars
    /\ PanelOnly

\* a click on a chip of the open panel: toggleChipSelection(chip, item,
\* selectedItems) on the array the chip was rendered with
ClickChip ==
    /\ activePanel
    /\ \E i \in 1..Len(chipItems) :
          selectedItems' = IF chipsBound THEN Toggle(selectedItems, chipItems[i]) ELSE selectedItems
    /\ UNCHANGED <<panelName, allItems, chipItems, chipsBound, activePanel>>
    /\ UNCHANGED finderVars
    /\ PanelOnly

\* the panel's Reset button: state.selectedX = []; populateXChips()
ResetPanel ==
    /\ activePanel
    /\ selectedItems' = <<>>
    /\ chipItems' = allItems
    /\ chipsBound' = TRUE
    /\ UNCHANGED <<panelName, allItems, activePanel>>
    /\ UNCHANGED finderVars
    /\ PanelOnly

\* the panel's Apply button: closeAllPanels(); autoSearch()
ApplyPanel ==
    /\ activePanel
    /\ activePanel' = FALSE
    /\ AutoSearch
    /\ UNCHANGED <<searchRows, nextRowId, searching, view, fetch, lastOutcome, recording, filtersSent, filtersShown, inFlight>>
    /\ UNCHANGED <<panelName, allItems, selectedItems, chipItems, chipsBound>>
    /\ PanelOnly

\* the debounce timer fires: doSearch()
PanelSearchFires ==
    /\ autoTimer
    /\ autoTimer' = FALSE
    /\ DoSearch(searchRows)
    /\ UNCHANGED <<searchRows, nextRowId, lastOutcome, recording, filtersShown>>
    /\ UNCHANGED panelVars
    /\ PanelOnly

\* clearAll(): the selection arrays are replaced by new empty arrays, the
\* panels are closed, the chips lose their 'selected' class but are not
\* rendered again, and doSearch() is called
ClearAllPanels ==
    /\ searchRows' = << SearchRow(1, <<>>, "includes") >>
    /\ nextRowId' = 2
    /\ DoSearch(searchRows')
    /\ UNCHANGED <<lastOutcome, autoTimer, recording, filtersShown>>
    /\ selectedItems' = <<>>
    /\ chipsBound' = FALSE
    /\ activePanel' = FALSE
    /\ UNCHANGED <<panelName, allItems, chipItems>>
    /\ PanelOnly

\* doSearch() after a 2xx response: updateFiltersFromResults(af) replaces
\* the option lists, filters the selections and renders the chips again;
\* then the packages or the no-results card are shown
ResultArrives ==
    /\ fetch.active
    /\ \E outcome \in {"rows", "empty"} : FinishSearch(outcome)
    /\ UNCHANGED <<searchRows, nextRowId, autoTimer, recording, filtersSent>>
    /\ \E af \in AvailableFilters(panelName) :
          /\ allItems' = PanelItems(panelName, af)
          /\ selectedItems' = StillAvailable(selectedItems, allItems')
    /\ chipItems' = allItems'
    /\ chipsBound' = TRUE
    /\ UNCHANGED <<panelName, activePanel>>
    /\ PanelOnly

\* doSearch() after apiFetch threw: the panels stay as they are
SearchThrows ==
    /\ fetch.active
    /\ \E outcome \in {"http4xx", "network"} : FinishSearch(outcome)
    /\ UNCHANGED <<searchRows, nextRowId, autoTimer, recording, filtersSent>>
    /\ UNCHANGED panelVars
    /\ PanelOnly

PanelNext ==
    \/ TogglePanel
    \/ ClickChip
    \/ ResetPanel
    \/ ApplyPanel
    \/ PanelSearchFires
    \/ ClearAllPanels
    \/ ResultArrives
    \/ SearchThrows

\* C26: every selected value of the panel is in the panel's current option
\* list, in every reachable state: a result's available_filters replace the
\* list and take the selections they lack away in the same step
C26_SelectionsAvailable ==
    \A i \in 1..Len(selectedItems) : selectedItems[i] \in Elems(allItems)

\* a result has just left one of two selected countries out of the Region
\* panel: the selection lost it and kept the other
C26_Witness ==
    /\ panelName = "region"
    /\ lastOutcome = "rows"
    /\ ~searching
    /\ allItems = << sEurope, sFrance >>
    /\ selectedItems = << sFrance >>
    /\ chipsBound
    /\ activePanel

-----------------------------------------------------------------------------
(* The MultiSelect chip selector, in its two variants *)

MultiOnly == UNCHANGED <<engineVars, cacheVars, sanVars, finderVars, sugVars, typingVars, scoreVars, sortVars, chatVars, dropVars, pickerVars, pageVars, panelVars>>

MsVariants ==
    { "chips", "searchable" }

\* config.maxSelect: 0 stands for a config without maxSelect
MaxSelects ==
    { 0, 2 }

\* the data-value of the chips rendered
MsOptions ==
    << sLondon, sRome, sParis, sTokyo, sVenice, sZurich >>

\* what the user types into the search box
SearchTexts ==
    { <<>>, sBlank, sOslo }

DefaultMax(variant) ==
    IF variant = "searchable" THEN 5 ELSE 4

\* render: max = config.maxSelect || default, written into data-max;
\* attachHandlers: max = parseInt(dataset.max) || default
MaxOf(variant, maxSelect) ==
    LET rendered == IF maxSelect = 0 THEN DefaultMax(variant) ELSE maxSelect
        parsed == CastInt(String(rendered))
    IN IF parsed = 0 THEN DefaultMax(variant) ELSE parsed

\* Array.join(', ')
RECURSIVE JoinValues(_)
JoinValues(values) ==
    IF Len(values) = 0 THEN <<>>
    ELSE IF Len(values) = 1 THEN values[1]
    ELSE JoinValues(SubSeq(values, 1, Len(values) - 1)) \o << ",", " " >> \o values[Len(values)]

\* `${size}/${max}` and `${size} / ${max}`
CounterText(variant, size, max) ==
    IF variant = "searchable"
    THEN String(size) \o << " ", "/", " " >> \o String(max)
    ELSE String(size) \o << "/" >> \o String(max)

\* the number a counter text shows in front of its slash
ShownSize(text) ==
    LET slash == CHOOSE i \in 1..Len(text) : text[i] = "/"
    IN CastInt(Trim(SubSeq(text, 1, slash - 1)))

\* the number of values a comma-separated text lists
ListedValues(text) ==
    IF Len(text) = 0 THEN 0
    ELSE 1 + Cardinality({ i \in 1..Len(text) : text[i] = "," })

Without(values, v) ==
    SelectSeq(values, LAMBDA x : x # v)

\* the chip handler's effect on the Set: delete, add below max, or nothing
AfterChipClick(selected, v, max) ==
    IF v \in Elems(selected) THEN Without(selected, v)
    ELSE IF Len(selected) < max THEN Append(selected, v)
    ELSE selected

\* the widget after render() and attachHandlers()
MultiInit ==
    /\ msVariant \in MsVariants
    /\ \E maxSelect \in MaxSelects : msMax = MaxOf(msVariant, maxSelect)
    /\ msSelected = <<>>
    /\ msCounter = CounterText(msVariant, 0, msMax)
    /\ msCalled = FALSE
    /\ msText = <<>>
    /\ msSearch = <<>>
    /\ msClick = FALSE
    /\ msChip = <<>>

\* the click handler of a chip
ClickMsChip ==
    /\ \E i \in 1..Len(MsOptions) :
          /\ msChip' = MsOptions[i]
          /\ msSelected' = AfterChipClick(msSelected, MsOptions[i], msMax)
    /\ msClick' = ~msClick
    /\ msCounter' = CounterText(msVariant, Len(msSelected'), msMax)
    /\ msText' = JoinValues(msSelected')
    /\ msCalled' = TRUE
    /\ UNCHANGED <<msVariant, msMax, msSearch>>
    /\ MultiOnly

\* typing in the search box: the 'input' handler only shows and hides chips
TypeInSearch ==
    /\ msVariant = "searchable"
    /\ \E text \in SearchTexts : msSearch' = text
    /\ UNCHANGED <<msVariant, msMax, msSelected, msCounter, msCalled, msText, msClick, msChip>>
    /\ MultiOnly

\* Enter in the search box: the selected chips and the typed text, combined,
\* go to the callback and the box is emptied
PressEnterInSearch ==
    /\ msVariant = "searchable"
    /\ Len(Trim(msSearch)) > 0
    /\ LET val == Trim(msSearch)
       IN msText' = IF Len(msSelected) > 0 THEN JoinValues(Append(msSelected, val)) ELSE val
    /\ msSearch' = <<>>
    /\ msCalled' = TRUE
    /\ UNCHANGED <<msVariant, msMax, msSelected, msCounter, msClick, msChip>>
    /\ MultiOnly

MultiNext ==
    \/ ClickMsChip
    \/ TypeInSearch
    \/ PressEnterInSearch

ChipClicked ==
    msClick' # msClick

\* the selection never holds more than max values
SelectionWithinMax ==
    Len(msSelected) <= msMax

\* a click on a selected chip deselects it, a click on an unselected chip
\* at the limit changes nothing
ClickToggles ==
    [][ChipClicked =>
          /\ msChip' \in Elems(msSelected) => msSelected' = Without(msSelected, msChip')
          /\ (msChip' \notin Elems(msSelected) /\ Len(msSelected) >= msMax) => msSelected' = msSelected
          /\ (msChip' \notin Elems(msSelected) /\ Len(msSelected) < msMax) => msSelected' = Append(msSelected, msChip')]_vars

\* the counter shows the size of the selection
CounterShowsSize ==
    ShownSize(msCounter) = Len(msSelected)

\* the text a chip click passes to the callback lists the selection
ClickTextWithinMax ==
    [][ChipClicked => (msText' = JoinValues(msSelected') /\ ListedValues(msText') <= msMax)]_vars

\* no text passed to the callback lists more than max values
CallbackTextWithinMax ==
    msCalled => ListedValues(msText) <= msMax

-----------------------------------------------------------------------------
(* The state of the parts a specification leaves alone *)

CacheIdle ==
    /\ cacheKey = "none"
    /\ cacheVal = 0
    /\ cacheTs = 0
    /\ now = 0
    /\ storeVer = 0
    /\ callers = <<>>
    /\ served = <<>>
    /\ ticks = 0

SanIdle ==
    /\ sanIn = <<>>
    /\ sanOut = <<>>
    /\ sanPc = "idle"

FinderIdle ==
    /\ searchRows = <<>>
    /\ nextRowId = 0
    /\ searching = FALSE
    /\ view = "none"
    /\ fetch = <<>>
    /\ lastOutcome = "none"
    /\ autoTimer = FALSE
    /\ recording = FALSE
    /\ filtersSent = <<>>
    /\ filtersShown = <<>>
    /\ inFlight = 0

SugIdle ==
    /\ sugIn = <<>>
    /\ sugOut = <<>>
    /\ sugPc = "idle"

TypingIdle ==
    /\ typed = 0

ScoreIdle ==
    /\ scoreIn = <<>>
    /\ scoreOut = 0
    /\ scorePc = "idle"

SortIdle ==
    /\ sortIn = <<>>
    /\ sortOut = <<>>
    /\ sortPc = "idle"

ChatIdle ==
    /\ messages = <<>>
    /\ sessionId = "null"
    /\ currentStep = 0
    /\ sending = FALSE
    /\ chatFetch = NoChatFetch
    /\ chatInFlight = 0
    /\ handled = 0
    /\ chatResponse = NoResponse

DropIdle ==
    /\ inputValue = <<>>
    /\ focused = FALSE
    /\ sugTimer = FALSE
    /\ hideTimer = FALSE
    /\ pending = {}
    /\ nextSeq = 0
    /\ dropdown = [visible |-> FALSE, items |-> <<>>, query |-> <<>>, seq |-> 0]
    /\ answered = 0

PickerIdle ==
    /\ calNow = [day |-> 0, month |-> 0, year |-> 0]
    /\ curMonth = 0
    /\ curYear = 0
    /\ startDate = [day |-> 0, month |-> 0, year |-> 0]
    /\ endDate = [day |-> 0, month |-> 0, year |-> 0]
    /\ confirmDisabled = TRUE
    /\ navDisabled = TRUE
    /\ calDone = FALSE
    /\ actionUsed = TRUE
    /\ chatInput = [kind |-> "empty"]
    /\ onConfirmCalls = 0

PageIdle ==
    /\ bubble = [text |-> "", retry |-> FALSE]
    /\ storage = [set |-> FALSE, rb_session_id |-> "", rb_step |-> <<>>]
    /\ saved = [set |-> FALSE, sessionId |-> "null", currentStep |-> 0]
    /\ restores = 0

PanelIdle ==
    /\ panelName = "none"
    /\ allItems = <<>>
    /\ selectedItems = <<>>
    /\ chipItems = <<>>
    /\ chipsBound = TRUE
    /\ activePanel = FALSE

MultiIdle ==
    /\ msVariant = "none"
    /\ msMax = 0
    /\ msSelected = <<>>
    /\ msCounter = <<>>
    /\ msCalled = FALSE
    /\ msText = <<>>
    /\ msSearch = <<>>
    /\ msClick = FALSE
    /\ msChip = <<>>

-----------------------------------------------------------------------------
(* Specifications *)

\* one search(filters) call of the recommendation engine
InitSearch ==
    EngineInit /\ CacheIdle /\ SanIdle /\ FinderIdle /\ SugIdle /\ TypingIdle /\ ScoreIdle /\ SortIdle /\ ChatIdle /\ DropIdle /\ PickerIdle /\ PageIdle /\ PanelIdle /\ MultiIdle

SpecSearch ==
    InitSearch /\ [][EngineNext]_vars

\* concurrent callers of one facet cache while time passes and the catalog is written
InitCache ==
    CacheInit /\ EngineIdle /\ SanIdle /\ FinderIdle /\ SugIdle /\ TypingIdle /\ ScoreIdle /\ SortIdle /\ ChatIdle /\ DropIdle /\ PickerIdle /\ PageIdle /\ PanelIdle /\ MultiIdle

SpecCache ==
    InitCache /\ [][CacheNext]_vars

InitSanitize ==
    SanInit /\ EngineIdle /\ CacheIdle /\ FinderIdle /\ SugIdle /\ TypingIdle /\ ScoreIdle /\ SortIdle /\ ChatIdle /\ DropIdle /\ PickerIdle /\ PageIdle /\ PanelIdle /\ MultiIdle

\* _sanitize_filters() applied to one raw filter structure
SpecSanitize ==
    InitSanitize /\ [][SanNext]_vars

InitFinder ==
    FinderInit /\ EngineIdle /\ CacheIdle /\ SanIdle /\ SugIdle /\ TypingIdle /\ ScoreIdle /\ SortIdle /\ ChatIdle /\ DropIdle /\ PickerIdle /\ PageIdle /\ PanelIdle /\ MultiIdle

\* the Package Finder page: search rows, debounced and direct searches
SpecFinder ==
    InitFinder /\ [][FinderNext]_vars

InitSuggest ==
    SugInit /\ EngineIdle /\ CacheIdle /\ SanIdle /\ FinderIdle /\ TypingIdle /\ ScoreIdle /\ SortIdle /\ ChatIdle /\ DropIdle /\ PickerIdle /\ PageIdle /\ PanelIdle /\ MultiIdle

\* one fetchSuggestions call on what the autosuggest endpoint returned
SpecSuggest ==
    InitSuggest /\ [][SugNext]_vars

InitRanker ==
    RankerInit /\ EngineIdle /\ CacheIdle /\ SanIdle /\ FinderIdle /\ TypingIdle /\ ScoreIdle /\ SortIdle /\ ChatIdle /\ DropIdle /\ PickerIdle /\ PageIdle /\ PanelIdle /\ MultiIdle

\* the ranking step of fetchSuggestions on any list of candidates
SpecRanker ==
    InitRanker /\ [][RankerNext]_vars

InitTyping ==
    TypingInit /\ EngineIdle /\ CacheIdle /\ SanIdle /\ SugIdle /\ ScoreIdle /\ SortIdle /\ ChatIdle /\ DropIdle /\ PickerIdle /\ PageIdle /\ PanelIdle /\ MultiIdle

\* destinations typed into and removed from the search rows
SpecTyping ==
    InitTyping /\ [][TypingNext]_vars

InitRows ==
    RowsInit /\ EngineIdle /\ CacheIdle /\ SanIdle /\ SugIdle /\ TypingIdle /\ ScoreIdle /\ SortIdle /\ ChatIdle /\ DropIdle /\ PickerIdle /\ PageIdle /\ PanelIdle /\ MultiIdle

\* rows added and removed with the row buttons, one destination per row
SpecRows ==
    InitRows /\ [][RowsNext]_vars

InitScore ==
    ScoreInit /\ EngineIdle /\ CacheIdle /\ SanIdle /\ FinderIdle /\ SugIdle /\ TypingIdle /\ SortIdle /\ ChatIdle /\ DropIdle /\ PickerIdle /\ PageIdle /\ PanelIdle /\ MultiIdle

\* one _score(row, filters) call
SpecScore ==
    InitScore /\ [][ScoreNext]_vars

InitSort ==
    SortInit /\ EngineIdle /\ CacheIdle /\ SanIdle /\ FinderIdle /\ SugIdle /\ TypingIdle /\ ScoreIdle /\ ChatIdle /\ DropIdle /\ PickerIdle /\ PageIdle /\ PanelIdle /\ MultiIdle

\* one _apply_sort(scored, sort_by) call
SpecSort ==
    InitSort /\ [][SortNext]_vars

InitTracked ==
    TrackedInit /\ EngineIdle /\ CacheIdle /\ SanIdle /\ SugIdle /\ TypingIdle /\ ScoreIdle /\ SortIdle /\ ChatIdle /\ DropIdle /\ PickerIdle /\ PageIdle /\ PanelIdle /\ MultiIdle

\* the Package Finder, with the filters each search was built from
SpecTracked ==
    InitTracked /\ [][TrackedNext]_vars

InitChat ==
    ChatInit /\ EngineIdle /\ CacheIdle /\ SanIdle /\ FinderIdle /\ SugIdle /\ TypingIdle /\ ScoreIdle /\ SortIdle /\ DropIdle /\ PickerIdle /\ PanelIdle /\ MultiIdle

\* the chat app: messages sent and the requests behind them
SpecChat ==
    InitChat /\ [][ChatNext]_vars

InitDropdown ==
    DropInit /\ EngineIdle /\ CacheIdle /\ SanIdle /\ SugIdle /\ TypingIdle /\ ScoreIdle /\ SortIdle /\ ChatIdle /\ PickerIdle /\ PageIdle /\ PanelIdle /\ MultiIdle

\* one search row's input, its debounced suggestion requests and its dropdown
SpecDropdown ==
    InitDropdown /\ [][DropNext]_vars

InitPicker ==
    PickerInit /\ EngineIdle /\ CacheIdle /\ SanIdle /\ FinderIdle /\ SugIdle /\ TypingIdle /\ ScoreIdle /\ SortIdle /\ DropIdle /\ PanelIdle /\ MultiIdle

\* one chat message's date picker and suggestion buttons, and the chat input
SpecPicker ==
    InitPicker /\ [][PickerNext]_vars

\* search(filters) runs to its return: a synchronous call is never suspended
\* for ever
SpecSearchFair ==
    InitSearch /\ [][EngineNext]_vars /\ WF_vars(EngineNext)

\* the chat app with the one progress guarantee the code gives: the abort
\* timer of every fetch() attempt
SpecChatFair ==
    InitChat /\ [][ChatNext]_vars /\ WF_vars(AttemptEnds)

InitPanels ==
    PanelInit /\ EngineIdle /\ CacheIdle /\ SanIdle /\ SugIdle /\ TypingIdle /\ ScoreIdle /\ SortIdle /\ ChatIdle /\ DropIdle /\ PickerIdle /\ PageIdle /\ MultiIdle

\* one filter panel, its chips and the searches that refresh its options
SpecPanels ==
    InitPanels /\ [][PanelNext]_vars

InitMulti ==
    MultiInit /\ EngineIdle /\ CacheIdle /\ SanIdle /\ FinderIdle /\ SugIdle /\ TypingIdle /\ ScoreIdle /\ SortIdle /\ ChatIdle /\ DropIdle /\ PickerIdle /\ PageIdle /\ PanelIdle

\* one MultiSelect widget under chip clicks and search-box input
SpecMulti ==
    InitMulti /\ [][MultiNext]_vars
====
